---- MODULE Spec2Model ----
(***************************************************************************)
(* A model of go-scrub: the recursive walker that masks string fields of   *)
(* an arbitrary Go value, in its three generations:                        *)
(*   V1  Scrub(input, fieldsToScrub)            mask in place, encode,     *)
(*       restore from savedValues               (src/unnamed/part_000)     *)
(*   V2  Scrub(cloning, target, map-of-options) clone through the codec,   *)
(*       mask the clone                         (src/scrub.go:573-811)     *)
(*   V3  Scrub(cloning, target, FieldScrubOptioner) as V2, with maps and   *)
(*       partial masking                        (src/scrub.go:125-519)     *)
(* Go values live in a heap of cells (a sequence of nodes, an address is   *)
(* an index), so that pointers, slices and maps can share what they refer  *)
(* to, as they do in Go.  Strings are sequences of one-character strings.  *)
(***************************************************************************)
EXTENDS Integers, Sequences, FiniteSets, TLC

\* ------------------------------------------------------------------ bounds
\* Longest secret value the enumerated targets hold.
MaxStrLen == 2
\* Deepest nesting the walkers may recurse to (Go's goroutine stack).
MaxDepth == 12

\* ------------------------------------------------------- strings and names
Upper == <<"A","B","C","D","E","F","G","H","I","J","K","L","M",
           "N","O","P","Q","R","S","T","U","V","W","X","Y","Z">>
Lower == <<"a","b","c","d","e","f","g","h","i","j","k","l","m",
           "n","o","p","q","r","s","t","u","v","w","x","y","z">>

IsUpperChar(c) == \E i \in 1..Len(Upper) : Upper[i] = c

\* Type names, as encoding/xml writes them.
NAME_string == <<"s","t","r","i","n","g">>
NAME_int == <<"i","n","t">>
NAME_float64 == <<"f","l","o","a","t","6","4">>

\* strings.ToLower, character by character.
ToLowerChar(c) ==
    IF IsUpperChar(c) THEN Lower[CHOOSE i \in 1..Len(Upper) : Upper[i] = c] ELSE c

ToLower(s) == [i \in 1..Len(s) |-> ToLowerChar(s[i])]

\* strings.Repeat(symbol, n): symbol is a string (a sequence of characters).
RECURSIVE Repeat(_, _)
Repeat(symbol, n) == IF n <= 0 THEN <<>> ELSE symbol \o Repeat(symbol, n - 1)

\* A struct field is exported when its name starts with an upper-case letter;
\* reflect's CanInterface is false on the address of any other field.
CanInterface(name) == Len(name) > 0 /\ IsUpperChar(name[1])

\* --------------------------------------------------------------- Go values
\* A literal is a Go composite literal, children inline; Build lays it out in
\* the heap.  Slices, pointers and maps carry their element type, as reflect
\* knows it, so that a zero value can be decoded into.
TString == [t |-> "string"]
TInt == [t |-> "int"]
TChan == [t |-> "chan"]
TInterface == [t |-> "interface"]
TSlice(e) == [t |-> "slice", e |-> e]
TPtr(e) == [t |-> "ptr", e |-> e]
TMap(e) == [t |-> "map", e |-> e]
TStruct(tname, names, types) == [t |-> "struct", tname |-> tname, names |-> names, types |-> types]

LString(s) == [kind |-> "string", s |-> s]
LInt(n) == [kind |-> "int", n |-> n]
LFloat(n) == [kind |-> "float64", n |-> n]
LChan == [kind |-> "chan"]
LStruct(tname, names, vals) == [kind |-> "struct", tname |-> tname, names |-> names, kids |-> vals]
LSlice(e, vals) == [kind |-> "slice", e |-> e, isnil |-> FALSE, kids |-> vals]
LNilSlice(e) == [kind |-> "slice", e |-> e, isnil |-> TRUE, kids |-> <<>>]
LPtr(e, val) == [kind |-> "ptr", e |-> e, isnil |-> FALSE, kids |-> <<val>>]
LNilPtr(e) == [kind |-> "ptr", e |-> e, isnil |-> TRUE, kids |-> <<>>]
LMap(e, keys, vals) == [kind |-> "map", e |-> e, isnil |-> FALSE, keys |-> keys, kids |-> vals]
LNilMap(e) == [kind |-> "map", e |-> e, isnil |-> TRUE, keys |-> <<>>, kids |-> <<>>]
LInterface(val) == [kind |-> "interface", isnil |-> FALSE, kids |-> <<val>>]
LNilInterface == [kind |-> "interface", isnil |-> TRUE, kids |-> <<>>]

IsLeaf(n) == n.kind \in {"string", "int", "float64", "chan"}

\* reflect.Zero of a type, as a literal.
RECURSIVE ZeroLit(_)
ZeroLit(ty) ==
    CASE ty.t = "string" -> LString(<<>>)
      [] ty.t = "int" -> LInt(0)
      [] ty.t = "chan" -> LChan
      [] ty.t = "interface" -> LNilInterface
      [] ty.t = "slice" -> LNilSlice(ty.e)
      [] ty.t = "ptr" -> LNilPtr(ty.e)
      [] ty.t = "map" -> LNilMap(ty.e)
      [] ty.t = "struct" ->
            LStruct(ty.tname, ty.names, [i \in 1..Len(ty.types) |-> ZeroLit(ty.types[i])])

\* Build(h, lit): the heap h with the literal laid out after its last cell, and
\* the address of the literal's own cell.  A cell's kids are addresses.
RECURSIVE Build(_, _)
RECURSIVE BuildSeq(_, _, _)
BuildSeq(h, lits, addrs) ==
    IF Len(addrs) = Len(lits) THEN [h |-> h, addrs |-> addrs]
    ELSE LET r == Build(h, lits[Len(addrs) + 1])
         IN  BuildSeq(r.h, lits, Append(addrs, r.a))

Build(h, lit) ==
    IF IsLeaf(lit) THEN [h |-> Append(h, lit), a |-> Len(h) + 1]
    ELSE LET a == Len(h) + 1
             r == BuildSeq(Append(h, lit), lit.kids, <<>>)
         IN  [h |-> [r.h EXCEPT ![a] = [lit EXCEPT !.kids = r.addrs]], a |-> a]

\* The cell of the caller's value: the first one laid out.
Root == 1

\* ------------------------------------------------------------ encoding/json
\* A document is what the codec writes: the text, as its parse tree.  DErr is
\* a failed encoding (an error return, no bytes).
DNull == [k |-> "null"]
DErr == [k |-> "err"]
DStr(s) == [k |-> "str", s |-> s]
DNum(n) == [k |-> "num", n |-> n]
DArr(vals) == [k |-> "arr", vals |-> vals]
DObj(keys, vals) == [k |-> "obj", keys |-> keys, vals |-> vals]

\* The indexes of a sequence that satisfy a test, in order.
RECURSIVE SelectIdx(_, _, _)
SelectIdx(n, Test(_), i) ==
    IF i > n THEN <<>>
    ELSE (IF Test(i) THEN <<i>> ELSE <<>>) \o SelectIdx(n, Test, i + 1)

AnyErr(docs) == \E i \in 1..Len(docs) : docs[i] = DErr

\* json.Marshal of the value in cell a: exported struct fields by name, in
\* declaration order; a nil slice, map, pointer or interface is null;
\* pointers and interfaces are followed; a channel is an unsupported type;
\* a cycle is an error.
RECURSIVE jsonMarshal(_, _, _)
jsonMarshal(h, a, fuel) ==
    LET n == h[a] IN
    IF fuel = 0 THEN DErr
    ELSE CASE n.kind = "string" -> DStr(n.s)
      [] n.kind \in {"int", "float64"} -> DNum(n.n)
      [] n.kind = "chan" -> DErr
      [] n.kind \in {"ptr", "interface"} ->
            IF n.isnil THEN DNull ELSE jsonMarshal(h, n.kids[1], fuel - 1)
      [] n.kind = "slice" ->
            IF n.isnil THEN DNull
            ELSE LET vals == [i \in 1..Len(n.kids) |-> jsonMarshal(h, n.kids[i], fuel - 1)]
                 IN  IF AnyErr(vals) THEN DErr ELSE DArr(vals)
      [] n.kind = "map" ->
            IF n.isnil THEN DNull
            ELSE LET vals == [i \in 1..Len(n.kids) |-> jsonMarshal(h, n.kids[i], fuel - 1)]
                 IN  IF AnyErr(vals) THEN DErr ELSE DObj(n.keys, vals)
      [] n.kind = "struct" ->
            LET Exported(i) == CanInterface(n.names[i])
                idx == SelectIdx(Len(n.names), Exported, 1)
                vals == [j \in 1..Len(idx) |-> jsonMarshal(h, n.kids[idx[j]], fuel - 1)]
            IN  IF AnyErr(vals) THEN DErr
                ELSE DObj([j \in 1..Len(idx) |-> n.names[idx[j]]], vals)

\* An argument of interface type: nil, a typed nil pointer, a pointer to cell
\* a, or the value of cell a passed by value.
ArgNil == [k |-> "nil", a |-> 0]
ArgNilPtr == [k |-> "nilptr", a |-> 0]
ArgPtr(a) == [k |-> "ptr", a |-> a]
ArgVal(a) == [k |-> "val", a |-> a]

\* json.Marshal of an argument.
jsonMarshalArg(h, arg) ==
    IF arg.k \in {"nil", "nilptr"} THEN DNull ELSE jsonMarshal(h, arg.a, MaxDepth)

\* ------------------------------------------- V1: mask in place, then restore
\* The fixed mask of src/unnamed/part_000:191.
FixedMaskV1 == Repeat(<<"*">>, 8)

\* The default field names of V1 (map[string]bool{"password": true}).
DefaultToScrubV1 == {<<"p","a","s","s","w","o","r","d">>}

\* The walk's state: the heap, the saved values, a panic if one was raised,
\* and, kept for the properties, the string locations the walk has come to
\* with a field name (seen: the cell, and whether the pass acts on it).
NoPanic == "none"

\* A mask pass that saves the value and leaves the target as it is.
scrubStringV1_keep(st, t, fieldName, fieldsToScrub, mask) ==
    LET n == st.h[t]
        acts == ToLower(fieldName) \in fieldsToScrub /\ n.kind = "string" /\ n.s # <<>>
        st1 == IF n.kind = "string"
               THEN [st EXCEPT !.seen = Append(@, [cell |-> t, acts |-> acts])] ELSE st
    IN
    IF acts
    THEN IF mask
         THEN [st1 EXCEPT !.sv = Append(@, n.s)]
         ELSE IF st.sv = <<>>
              THEN [st1 EXCEPT !.panic = "index out of range"]
              ELSE [st1 EXCEPT !.h[t] = LString(Head(st.sv)), !.sv = Tail(@)]
    ELSE st1

\* part_000:185-198: the field name is looked up in lower case; a settable,
\* non-empty string is saved and masked, or restored from the head of the
\* saved values.
scrubStringV1(st, t, fieldName, fieldsToScrub, mask) ==
    LET n == st.h[t]
        acts == ToLower(fieldName) \in fieldsToScrub /\ n.kind = "string" /\ n.s # <<>>
        st1 == IF n.kind = "string"
               THEN [st EXCEPT !.seen = Append(@, [cell |-> t, acts |-> acts])] ELSE st
    IN
    IF acts
    THEN IF mask
         THEN [st1 EXCEPT !.sv = Append(@, n.s), !.h[t] = LString(FixedMaskV1)]
         ELSE IF st.sv = <<>>
              THEN [st1 EXCEPT !.panic = "index out of range"]
              ELSE [st1 EXCEPT !.h[t] = LString(Head(st.sv)), !.sv = Tail(@)]
    ELSE st1

\* part_000:94-199.  a is the cell the target pointer points to.
RECURSIVE scrubInternalV1(_, _, _, _, _, _)
RECURSIVE scrubKidsV1(_, _, _, _, _, _, _)
scrubKidsV1(st, t, i, fieldName, fieldsToScrub, mask, fuel) ==
    LET n == st.h[t] IN
    IF i > Len(n.kids) \/ st.panic # NoPanic THEN st
    ELSE IF n.kind = "struct" /\ ~CanInterface(n.names[i])
         THEN scrubKidsV1(st, t, i + 1, fieldName, fieldsToScrub, mask, fuel)
         ELSE \* the walk of the i-th kid has ended (in st1) when the loop goes on
              LET name == IF n.kind = "struct" THEN n.names[i] ELSE fieldName IN
              CHOOSE out \in { scrubKidsV1(st1, t, i + 1, fieldName, fieldsToScrub, mask, fuel) :
                               st1 \in { scrubInternalV1(st, kid, name, fieldsToScrub, mask, fuel) :
                                         kid \in {n.kids[i]} } } : TRUE

scrubInternalV1(st, a, fieldName, fieldsToScrub, mask, fuel) ==
    IF st.panic # NoPanic THEN st
    ELSE IF fuel = 0 THEN [st EXCEPT !.panic = "stack overflow"]
    ELSE LET t == IF st.h[a].kind = "ptr" /\ ~st.h[a].isnil THEN st.h[a].kids[1] ELSE a
             n == st.h[t]
         IN  IF n.kind \in {"struct", "slice"}
             THEN scrubKidsV1(st, t, 1, fieldName, fieldsToScrub, mask, fuel - 1)
             ELSE IF fieldName = <<>> THEN st
             ELSE scrubStringV1(st, t, fieldName, fieldsToScrub, mask)

\* How deep the recursion of a walk is followed: a walk whose depth exceeds
\* the number of cells of the heap has come to some cell twice on one path
\* and has no end.
WalkFuel(h) == IF Len(h) + 1 < MaxDepth THEN Len(h) + 1 ELSE MaxDepth

\* A walk that also enters a value that is passed by value.
scrubArgV1_byValue(st, arg, fieldsToScrub, mask) ==
    IF arg.k \in {"ptr", "val"}
    THEN scrubInternalV1(st, arg.a, <<>>, fieldsToScrub, mask, WalkFuel(st.h))
    ELSE st

\* scrubInternal on an argument: only a pointer that points to something is
\* walked (part_000:97-107): the address of cell a, or, passed by value, a
\* cell that holds a pointer.
scrubArgV1(st, arg, fieldsToScrub, mask) ==
    CASE arg.k = "ptr" -> scrubInternalV1(st, arg.a, <<>>, fieldsToScrub, mask, WalkFuel(st.h))
      [] arg.k = "val" /\ st.h[arg.a].kind = "ptr" /\ ~st.h[arg.a].isnil ->
            scrubInternalV1(st, st.h[arg.a].kids[1], <<>>, fieldsToScrub, mask, WalkFuel(st.h))
      [] OTHER -> st

\* ----------------------------------------------------- json.Unmarshal (clone)
\* What a document decodes to in an interface{}: a string, a float64, a
\* []interface{} or a map[string]interface{}.
RECURSIVE jsonInterfaceLit(_)
jsonInterfaceLit(doc) ==
    CASE doc.k = "null" -> LNilInterface
      [] doc.k = "str" -> LInterface(LString(doc.s))
      [] doc.k = "num" -> LInterface(LFloat(doc.n))
      [] doc.k = "arr" ->
            LInterface(LSlice(TInterface, [i \in 1..Len(doc.vals) |-> jsonInterfaceLit(doc.vals[i])]))
      [] doc.k = "obj" ->
            LInterface(LMap(TInterface, doc.keys,
                            [i \in 1..Len(doc.vals) |-> jsonInterfaceLit(doc.vals[i])]))

\* The field a key decodes into: the exported field of that name, else the
\* first exported field equal to it under case folding; 0 if none.
jsonField(names, key) ==
    LET exact == {i \in 1..Len(names) : CanInterface(names[i]) /\ names[i] = key}
        fold == {i \in 1..Len(names) : CanInterface(names[i]) /\ ToLower(names[i]) = ToLower(key)}
        Min(S) == CHOOSE i \in S : \A j \in S : i <= j
    IN  IF exact # {} THEN Min(exact) ELSE IF fold # {} THEN Min(fold) ELSE 0

\* jsonUnmarshal(r, doc, a): decode doc into cell a of heap r.h; r.err is set
\* on a value the cell's type cannot hold (decoding goes on, the call fails).
RECURSIVE jsonUnmarshal(_, _, _)
RECURSIVE jsonUnmarshalElems(_, _, _, _, _)
RECURSIVE jsonUnmarshalFields(_, _, _, _)

\* Elements i.. of an array (or values of an object) into fresh cells of type
\* e, appended to kids.
jsonUnmarshalElems(r, docs, e, i, kids) ==
    IF i > Len(docs) THEN [r |-> r, kids |-> kids]
    ELSE LET b == Build(r.h, ZeroLit(e))
             r2 == jsonUnmarshal([r EXCEPT !.h = b.h], docs[i], b.a)
         IN  jsonUnmarshalElems(r2, docs, e, i + 1, Append(kids, b.a))

jsonUnmarshalFields(r, doc, a, i) ==
    IF i > Len(doc.keys) THEN r
    ELSE LET f == jsonField(r.h[a].names, doc.keys[i])
             r2 == IF f = 0 THEN r ELSE jsonUnmarshal(r, doc.vals[i], r.h[a].kids[f])
         IN  jsonUnmarshalFields(r2, doc, a, i + 1)

jsonUnmarshal(r, doc, a) ==
    LET n == r.h[a]
        Fail == [r EXCEPT !.err = TRUE]
    IN
    IF doc.k = "null"
    THEN IF n.kind \in {"ptr", "slice", "map"}
         THEN [r EXCEPT !.h[a] = [n EXCEPT !.isnil = TRUE, !.kids = <<>>]]
         ELSE IF n.kind = "interface" THEN [r EXCEPT !.h[a] = LNilInterface]
         ELSE r
    ELSE CASE n.kind = "string" ->
                IF doc.k = "str" THEN [r EXCEPT !.h[a] = LString(doc.s)] ELSE Fail
      [] n.kind \in {"int", "float64"} ->
                IF doc.k = "num" THEN [r EXCEPT !.h[a] = [n EXCEPT !.n = doc.n]] ELSE Fail
      [] n.kind = "chan" -> Fail
      [] n.kind = "interface" ->
                LET b == Build(r.h, jsonInterfaceLit(doc))
                IN  [r EXCEPT !.h = [b.h EXCEPT ![a] = b.h[b.a]]]
      [] n.kind = "ptr" ->
                IF n.isnil
                THEN LET b == Build(r.h, ZeroLit(n.e))
                         h2 == [b.h EXCEPT ![a] = [n EXCEPT !.isnil = FALSE, !.kids = <<b.a>>]]
                     IN  jsonUnmarshal([r EXCEPT !.h = h2], doc, b.a)
                ELSE jsonUnmarshal(r, doc, n.kids[1])
      [] n.kind = "slice" ->
                IF doc.k # "arr" THEN Fail
                ELSE LET x == jsonUnmarshalElems(r, doc.vals, n.e, 1, <<>>)
                     IN  [x.r EXCEPT !.h[a] = [n EXCEPT !.isnil = FALSE, !.kids = x.kids]]
      [] n.kind = "map" ->
                IF doc.k # "obj" THEN Fail
                ELSE LET x == jsonUnmarshalElems(r, doc.vals, n.e, 1, <<>>)
                     IN  [x.r EXCEPT !.h[a] = [n EXCEPT !.isnil = FALSE, !.keys = doc.keys,
                                                       !.kids = x.kids]]
      [] n.kind = "struct" ->
                IF doc.k # "obj" THEN Fail ELSE jsonUnmarshalFields(r, doc, a, 1)

\* json.Unmarshal(b, cloning): cloning must be a non-nil pointer.
jsonUnmarshalArg(h, doc, arg) ==
    IF arg.k # "ptr" THEN [h |-> h, err |-> TRUE]
    ELSE jsonUnmarshal([h |-> h, err |-> FALSE], doc, arg.a)

\* ------------------------------------------------- V3: the masking strategy
\* scrub.go:144, 146.
defaultMaskLen == 8
defaultMaskSymbol == <<"*">>

\* A FieldScrubOptioner value: nil, or the seven answers of its methods.
OptsNil == [isnil |-> TRUE]
Opts(symbol, enabled, minLen, maxLen, front, backGt, back) ==
    [isnil |-> FALSE, symbol |-> symbol, PartMaskEnabled |-> enabled,
     PartMaskMinFldLen |-> minLen, PartMaskMaxFldLen |-> maxLen,
     PartMaskVisibleFrontLen |-> front,
     PartMaskVisibleBackOnlyIfFldLenGreaterThan |-> backGt,
     PartMaskVisibleBackLen |-> back]

\* scrub.go:170-198: the options of the default policy.
defaultFieldScrubOpts == Opts(defaultMaskSymbol, FALSE, 0, 0, 0, 0, 0)

\* A default policy that names another field.
defaultToScrub_username ==
    [name \in {<<"u","s","e","r","n","a","m","e">>} |-> defaultFieldScrubOpts]

\* scrub.go:152-154.
defaultToScrub == [name \in {<<"p","a","s","s","w","o","r","d">>} |-> defaultFieldScrubOpts]

\* A mask length that ignores MaskLenVary.
maskLen_fixed(targetValueLen, lenVary) == defaultMaskLen

\* A mask length that follows the value whatever the configuration says.
maskLen_varying(targetValueLen, lenVary) == targetValueLen

\* scrub.go:489-495.
maskLen(targetValueLen, lenVary) == IF lenVary THEN targetValueLen ELSE defaultMaskLen

\* scrub.go:512-514.
applyFullMask(symbol, n) == Repeat(symbol, n)

\* A masking result: the mask and ok, or a run-time panic.
Masked(m) == [mask |-> m, ok |-> TRUE, panic |-> NoPanic]
NotMasked == [mask |-> <<>>, ok |-> FALSE, panic |-> NoPanic]
MaskPanic(why) == [mask |-> <<>>, ok |-> FALSE, panic |-> why]

\* A front-visible mask that keeps nothing visible.
applyPartBackMask_hideAll(value, symbol, visibleFrontLen) ==
    Masked(Repeat(symbol, Len(value)))

\* scrub.go:497-502.  value[0:visibleFrontLen] needs 0 <= visibleFrontLen <=
\* len(value), which also keeps the repeat count non-negative.
applyPartBackMask(value, symbol, visibleFrontLen) ==
    IF visibleFrontLen < 0 \/ visibleFrontLen > Len(value)
    THEN MaskPanic("slice bounds out of range")
    ELSE Masked(SubSeq(value, 1, visibleFrontLen)
                \o Repeat(symbol, Len(value) - visibleFrontLen))

\* A middle-visible mask that keeps the front only.
applyPartMiddleMask_frontOnly(value, symbol, visibleFrontLen, visibleBackLen) ==
    IF visibleFrontLen < 0 \/ visibleFrontLen > Len(value)
    THEN MaskPanic("slice bounds out of range")
    ELSE Masked(SubSeq(value, 1, visibleFrontLen)
                \o Repeat(symbol, Len(value) - visibleFrontLen))

\* scrub.go:504-510.
applyPartMiddleMask(value, symbol, visibleFrontLen, visibleBackLen) ==
    IF \/ visibleFrontLen < 0 \/ visibleFrontLen > Len(value)
       \/ visibleBackLen < 0 \/ visibleBackLen > Len(value)
    THEN MaskPanic("slice bounds out of range")
    ELSE IF (Len(value) - visibleFrontLen) - visibleBackLen < 0
    THEN MaskPanic("strings: negative Repeat count")
    ELSE Masked(SubSeq(value, 1, visibleFrontLen)
                \o Repeat(symbol, (Len(value) - visibleFrontLen) - visibleBackLen)
                \o SubSeq(value, Len(value) - visibleBackLen + 1, Len(value)))

\* scrub.go:460-467.
maskSymbol(opts) ==
    IF ~opts.isnil /\ Len(opts.symbol) = 1 THEN opts.symbol ELSE defaultMaskSymbol

\* scrub.go:469-482: the mask of a non-empty string under options opts.
\* A masking that does not look at the minimum and the maximum length.
maskValue_noRange(value, opts, lenVary) ==
    LET symbol == maskSymbol(opts)
        full == Masked(applyFullMask(symbol, maskLen(Len(value), lenVary)))
    IN  IF ~opts.isnil /\ opts.PartMaskEnabled
        THEN CASE Len(value) < opts.PartMaskVisibleBackOnlyIfFldLenGreaterThan ->
                     applyPartBackMask(value, symbol, opts.PartMaskVisibleFrontLen)
               [] OTHER ->
                     applyPartMiddleMask(value, symbol, opts.PartMaskVisibleFrontLen,
                                         opts.PartMaskVisibleBackLen)
        ELSE full

\* A masking that does not look at PartMaskEnabled.
maskValue_anyEnabled(value, opts, lenVary) ==
    LET symbol == maskSymbol(opts)
        full == Masked(applyFullMask(symbol, maskLen(Len(value), lenVary)))
    IN  IF ~opts.isnil
        THEN CASE Len(value) < opts.PartMaskMinFldLen -> full
               [] Len(value) > opts.PartMaskMaxFldLen -> full
               [] Len(value) < opts.PartMaskVisibleBackOnlyIfFldLenGreaterThan ->
                     applyPartBackMask(value, symbol, opts.PartMaskVisibleFrontLen)
               [] Len(value) <= opts.PartMaskMaxFldLen ->
                     applyPartMiddleMask(value, symbol, opts.PartMaskVisibleFrontLen,
                                         opts.PartMaskVisibleBackLen)
               [] OTHER -> full
        ELSE full

maskValue(value, opts, lenVary) ==
    LET symbol == maskSymbol(opts)
        full == Masked(applyFullMask(symbol, maskLen(Len(value), lenVary)))
    IN  IF ~opts.isnil /\ opts.PartMaskEnabled
        THEN CASE Len(value) < opts.PartMaskMinFldLen -> full
               [] Len(value) > opts.PartMaskMaxFldLen -> full
               [] Len(value) < opts.PartMaskVisibleBackOnlyIfFldLenGreaterThan ->
                     applyPartBackMask(value, symbol, opts.PartMaskVisibleFrontLen)
               [] Len(value) <= opts.PartMaskMaxFldLen ->
                     applyPartMiddleMask(value, symbol, opts.PartMaskVisibleFrontLen,
                                         opts.PartMaskVisibleBackLen)
               [] OTHER -> full
        ELSE full

\* doMasking that masks under any field name.
doMasking_all(n, fieldName, fieldsToScrub, checkCanSet, lenVary) ==
    IF n.kind = "string" /\ n.s # <<>>
    THEN maskValue(n.s, OptsNil, lenVary)
    ELSE NotMasked

\* doMasking without the test for the empty string.
doMasking_empty(n, fieldName, fieldsToScrub, checkCanSet, lenVary) ==
    IF ToLower(fieldName) \in DOMAIN fieldsToScrub
    THEN IF n.kind = "string"
         THEN maskValue(n.s, fieldsToScrub[ToLower(fieldName)], lenVary)
         ELSE NotMasked
    ELSE NotMasked

\* doMasking that looks the field name up as it is written.
doMasking_exact(n, fieldName, fieldsToScrub, checkCanSet, lenVary) ==
    IF fieldName \in DOMAIN fieldsToScrub
    THEN IF n.kind = "string" /\ n.s # <<>>
         THEN maskValue(n.s, fieldsToScrub[fieldName], lenVary)
         ELSE NotMasked
    ELSE NotMasked

\* scrub.go:450-487.  n is the cell's node; every cell the walkers reach is
\* settable (it is reached from a pointer through exported fields), so
\* checkCanSet never turns a value away.
doMasking(n, fieldName, fieldsToScrub, checkCanSet, lenVary) ==
    IF ToLower(fieldName) \in DOMAIN fieldsToScrub
    THEN IF n.kind = "string" /\ n.s # <<>>
         THEN maskValue(n.s, fieldsToScrub[ToLower(fieldName)], lenVary)
         ELSE NotMasked
    ELSE NotMasked

\* ----------------------------------------------------------- V3: the walker
\* reflect.Value.Elem of a cell: what an interface or pointer cell holds (0:
\* the zero Value); a panic on a cell of any other kind.
ElemOf(h, c) ==
    IF h[c].kind \in {"interface", "ptr"}
    THEN [panic |-> NoPanic, a |-> IF h[c].isnil THEN 0 ELSE h[c].kids[1]]
    ELSE [panic |-> "reflect: call of reflect.Value.Elem on a non-pointer Value", a |-> 0]

\* scrub.go:421-447.  m is the map's cell.
RECURSIVE scrubInternalMap(_, _, _, _, _)
RECURSIVE scrubMapSlice(_, _, _, _, _, _)
RECURSIVE scrubMapKeys(_, _, _, _, _, _)

\* A map walk that does not enter the slices its entries hold.
scrubMapSlice_skip(st, sl, i, fieldsToScrub, lenVary, fuel) == st

\* scrub.go:436-442: the elements of a slice held by a map entry.
scrubMapSlice(st, sl, i, fieldsToScrub, lenVary, fuel) ==
    IF i > Len(st.h[sl].kids) \/ st.panic # NoPanic THEN st
    ELSE LET el == ElemOf(st.h, st.h[sl].kids[i])
             st2 == IF el.panic # NoPanic THEN [st EXCEPT !.panic = el.panic]
                    ELSE IF el.a # 0 /\ st.h[el.a].kind = "map"
                    THEN scrubInternalMap(st, el.a, fieldsToScrub, lenVary, fuel)
                    ELSE st
         IN  scrubMapSlice(st2, sl, i + 1, fieldsToScrub, lenVary, fuel)

\* A key loop that also masks the entries of a map of string to string.
scrubMapKeys_typed(st, m, i, fieldsToScrub, lenVary, fuel) ==
    LET n == st.h[m] IN
    IF i > Len(n.keys) \/ st.panic # NoPanic THEN st
    ELSE IF n.e.t = "string"
    THEN LET r == doMasking(st.h[n.kids[i]], n.keys[i], fieldsToScrub, FALSE, lenVary)
         IN  scrubMapKeys(IF r.ok THEN [st EXCEPT !.h[n.kids[i]] = LString(r.mask)] ELSE st,
                          m, i + 1, fieldsToScrub, lenVary, fuel)
    ELSE IF n.e.t # "interface"
    THEN scrubMapKeys(st, m, i + 1, fieldsToScrub, lenVary, fuel)
    ELSE LET c == n.kids[i]
             v == IF st.h[c].isnil THEN 0 ELSE st.h[c].kids[1]
             r == IF v # 0 /\ st.h[v].kind = "string"
                  THEN doMasking(st.h[v], n.keys[i], fieldsToScrub, FALSE, lenVary)
                  ELSE NotMasked
             st2 == IF r.panic # NoPanic THEN [st EXCEPT !.panic = r.panic]
                    ELSE IF r.ok
                    THEN [st EXCEPT !.h = [Append(st.h, LString(r.mask))
                                             EXCEPT ![c] = [st.h[c] EXCEPT !.kids = <<Len(st.h) + 1>>]]]
                    ELSE st
             st3 == IF st2.panic = NoPanic /\ v # 0 /\ st.h[v].kind = "slice"
                    THEN scrubMapSlice(st2, v, 1, fieldsToScrub, lenVary, fuel)
                    ELSE st2
         IN  scrubMapKeys(st3, m, i + 1, fieldsToScrub, lenVary, fuel)

\* scrub.go:422-444: one key after the other.
scrubMapKeys(st, m, i, fieldsToScrub, lenVary, fuel) ==
    LET n == st.h[m] IN
    IF i > Len(n.keys) \/ st.panic # NoPanic THEN st
    ELSE IF n.e.t # "interface"
    THEN scrubMapKeys(st, m, i + 1, fieldsToScrub, lenVary, fuel)
    ELSE LET c == n.kids[i]
             v == IF st.h[c].isnil THEN 0 ELSE st.h[c].kids[1]
             r == IF v # 0 /\ st.h[v].kind = "string"
                  THEN doMasking(st.h[v], n.keys[i], fieldsToScrub, FALSE, lenVary)
                  ELSE NotMasked
             \* SetMapIndex: the entry holds a new string value.
             st2 == IF r.panic # NoPanic THEN [st EXCEPT !.panic = r.panic]
                    ELSE IF r.ok
                    THEN [st EXCEPT !.h = [Append(st.h, LString(r.mask))
                                             EXCEPT ![c] = [st.h[c] EXCEPT !.kids = <<Len(st.h) + 1>>]]]
                    ELSE st
             st3 == IF st2.panic = NoPanic /\ v # 0 /\ st.h[v].kind = "slice"
                    THEN scrubMapSlice(st2, v, 1, fieldsToScrub, lenVary, fuel)
                    ELSE st2
         IN  scrubMapKeys(st3, m, i + 1, fieldsToScrub, lenVary, fuel)

scrubInternalMap(st, m, fieldsToScrub, lenVary, fuel) ==
    IF st.panic # NoPanic THEN st
    ELSE IF fuel = 0 THEN [st EXCEPT !.panic = "stack overflow"]
    ELSE scrubMapKeys(st, m, 1, fieldsToScrub, lenVary, fuel - 1)

\* scrub.go:413-415: a named scalar cell.
scrubString(st, t, fieldName, fieldsToScrub, lenVary) ==
    LET r == doMasking(st.h[t], fieldName, fieldsToScrub, TRUE, lenVary) IN
    IF r.panic # NoPanic THEN [st EXCEPT !.panic = r.panic]
    ELSE IF r.ok THEN [st EXCEPT !.h[t] = LString(r.mask)]
    ELSE st

\* scrub.go:318-416.  a is the cell the target pointer points to.
RECURSIVE scrubInternal(_, _, _, _, _, _)
RECURSIVE scrubKids(_, _, _, _, _, _, _)

\* A walk that gives the elements of a slice no field name.
scrubKids_noName(st, t, i, fieldName, fieldsToScrub, lenVary, fuel) ==
    LET n == st.h[t] IN
    IF i > Len(n.kids) \/ st.panic # NoPanic THEN st
    ELSE IF n.kind = "struct"
         THEN IF CanInterface(n.names[i])
              THEN scrubKids(scrubInternal(st, n.kids[i], n.names[i], fieldsToScrub, lenVary, fuel),
                             t, i + 1, fieldName, fieldsToScrub, lenVary, fuel)
              ELSE scrubKids(st, t, i + 1, fieldName, fieldsToScrub, lenVary, fuel)
         ELSE scrubKids(scrubInternal(st, n.kids[i], <<>>, fieldsToScrub, lenVary, fuel),
                        t, i + 1, fieldName, fieldsToScrub, lenVary, fuel)

scrubKids(st, t, i, fieldName, fieldsToScrub, lenVary, fuel) ==
    LET n == st.h[t] IN
    IF i > Len(n.kids) \/ st.panic # NoPanic THEN st
    ELSE IF n.kind = "struct"
         THEN IF CanInterface(n.names[i])
              THEN scrubKids(scrubInternal(st, n.kids[i], n.names[i], fieldsToScrub, lenVary, fuel),
                             t, i + 1, fieldName, fieldsToScrub, lenVary, fuel)
              ELSE scrubKids(st, t, i + 1, fieldName, fieldsToScrub, lenVary, fuel)
         ELSE scrubKids(scrubInternal(st, n.kids[i], fieldName, fieldsToScrub, lenVary, fuel),
                        t, i + 1, fieldName, fieldsToScrub, lenVary, fuel)

\* A walk that looks up the empty field name like any other.
scrubInternal_anyName(st, a, fieldName, fieldsToScrub, lenVary, fuel) ==
    IF st.panic # NoPanic THEN st
    ELSE IF fuel = 0 THEN [st EXCEPT !.panic = "stack overflow"]
    ELSE LET t == IF st.h[a].kind = "ptr" /\ ~st.h[a].isnil THEN st.h[a].kids[1] ELSE a
             n == st.h[t]
         IN  IF n.kind \in {"struct", "slice"}
             THEN scrubKids(st, t, 1, fieldName, fieldsToScrub, lenVary, fuel - 1)
             ELSE IF n.kind = "map"
             THEN scrubInternalMap(st, t, fieldsToScrub, lenVary, fuel - 1)
             ELSE scrubString(st, t, fieldName, fieldsToScrub, lenVary)

scrubInternal(st, a, fieldName, fieldsToScrub, lenVary, fuel) ==
    IF st.panic # NoPanic THEN st
    ELSE IF fuel = 0 THEN [st EXCEPT !.panic = "stack overflow"]
    ELSE LET t == IF st.h[a].kind = "ptr" /\ ~st.h[a].isnil THEN st.h[a].kids[1] ELSE a
             n == st.h[t]
         IN  IF n.kind \in {"struct", "slice"}
             THEN scrubKids(st, t, 1, fieldName, fieldsToScrub, lenVary, fuel - 1)
             ELSE IF n.kind = "map"
             THEN scrubInternalMap(st, t, fieldsToScrub, lenVary, fuel - 1)
             ELSE IF fieldName = <<>> THEN st
             ELSE scrubString(st, t, fieldName, fieldsToScrub, lenVary)

\* A Scrub that walks the caller's target in place of the clone.
scrubArg_onTarget(st, arg, fieldsToScrub, lenVary) ==
    IF arg.k = "ptr" THEN scrubInternal(st, Root, <<>>, fieldsToScrub, lenVary, MaxDepth)
    ELSE st

\* scrubInternal on the cloning argument (scrub.go:322-330).
scrubArg(st, arg, fieldsToScrub, lenVary) ==
    IF arg.k = "ptr" THEN scrubInternal(st, arg.a, <<>>, fieldsToScrub, lenVary, MaxDepth)
    ELSE st

\* scrub.go:516-519.  reflect.Value.IsZero: a nil pointer, slice, map or
\* interface, an empty string, a zero number, a struct of zero fields.
RECURSIVE IsZero(_, _)
IsZero(h, a) ==
    LET n == h[a] IN
    CASE n.kind = "string" -> n.s = <<>>
      [] n.kind \in {"int", "float64"} -> n.n = 0
      [] n.kind = "chan" -> TRUE
      [] n.kind \in {"ptr", "slice", "map", "interface"} -> n.isnil
      [] n.kind = "struct" -> \A i \in 1..Len(n.kids) : IsZero(h, n.kids[i])

ArgIsZero(h, arg) ==
    CASE arg.k \in {"nil", "nilptr"} -> TRUE
      [] arg.k = "ptr" -> FALSE
      [] arg.k = "val" -> IsZero(h, arg.a)

\* invalidInput that looks at the clone receptacle only.
invalidInput_cloningOnly(h, cloning, target) ==
    cloning.k = "nil" \/ ArgIsZero(h, cloning)

invalidInput(h, cloning, target) ==
    cloning.k = "nil" \/ target.k = "nil" \/ ArgIsZero(h, cloning) \/ ArgIsZero(h, target)

\* ------------------------------------------ V2: options as map[string]string
\* scrub.go:591.
DefaultMaskLenV2 == 8

\* An options map: whether it has the key "symbol", and its value.
OptsV2(hasSymbol, symbol) == [hasSymbol |-> hasSymbol, symbol |-> symbol]

\* scrub.go:782-805.
scrubStringV2(st, t, fieldName, fieldsToScrub, lenVary) ==
    LET n == st.h[t] IN
    IF ToLower(fieldName) \in DOMAIN fieldsToScrub /\ n.kind = "string" /\ n.s # <<>>
    THEN LET opts == fieldsToScrub[ToLower(fieldName)]
             symbol == IF opts.hasSymbol THEN opts.symbol ELSE <<"*">>
             mask == IF lenVary THEN Repeat(symbol, Len(n.s))
                     ELSE Repeat(symbol, DefaultMaskLenV2)
         IN  [st EXCEPT !.h[t] = LString(mask)]
    ELSE st

\* scrub.go:694-806.
RECURSIVE scrubInternalV2(_, _, _, _, _, _)
RECURSIVE scrubKidsV2(_, _, _, _, _, _, _)
scrubKidsV2(st, t, i, fieldName, fieldsToScrub, lenVary, fuel) ==
    LET n == st.h[t] IN
    IF i > Len(n.kids) \/ st.panic # NoPanic THEN st
    ELSE IF n.kind = "struct"
         THEN IF CanInterface(n.names[i])
              THEN scrubKidsV2(scrubInternalV2(st, n.kids[i], n.names[i], fieldsToScrub, lenVary, fuel),
                               t, i + 1, fieldName, fieldsToScrub, lenVary, fuel)
              ELSE scrubKidsV2(st, t, i + 1, fieldName, fieldsToScrub, lenVary, fuel)
         ELSE scrubKidsV2(scrubInternalV2(st, n.kids[i], fieldName, fieldsToScrub, lenVary, fuel),
                          t, i + 1, fieldName, fieldsToScrub, lenVary, fuel)

scrubInternalV2(st, a, fieldName, fieldsToScrub, lenVary, fuel) ==
    IF st.panic # NoPanic THEN st
    ELSE IF fuel = 0 THEN [st EXCEPT !.panic = "stack overflow"]
    ELSE LET t == IF st.h[a].kind = "ptr" /\ ~st.h[a].isnil THEN st.h[a].kids[1] ELSE a
             n == st.h[t]
         IN  IF n.kind \in {"struct", "slice"}
             THEN scrubKidsV2(st, t, 1, fieldName, fieldsToScrub, lenVary, fuel - 1)
             ELSE IF fieldName = <<>> THEN st
             ELSE scrubStringV2(st, t, fieldName, fieldsToScrub, lenVary)

scrubArgV2(st, arg, fieldsToScrub, lenVary) ==
    IF arg.k = "ptr" THEN scrubInternalV2(st, arg.a, <<>>, fieldsToScrub, lenVary, MaxDepth)
    ELSE st

\* ------------------------------------------------------------- encoding/xml
\* The empty text "", and a text of elements.  An element has a name, the
\* scalar it holds (DNull for a struct's element) and its child elements.
DEmpty == [k |-> "empty"]
XElem(name, val, kids) == [name |-> name, val |-> val, kids |-> kids]
XDoc(elems) == IF elems = <<>> THEN DEmpty ELSE [k |-> "xml", elems |-> elems]
XOk(elems) == [err |-> FALSE, elems |-> elems]
XFail == [err |-> TRUE, elems |-> <<>>]

RECURSIVE ConcatX(_, _)
ConcatX(rs, i) ==
    IF i > Len(rs) THEN XOk(<<>>)
    ELSE LET rest == ConcatX(rs, i + 1)
         IN  IF rs[i].err \/ rest.err THEN XFail ELSE XOk(rs[i].elems \o rest.elems)

\* The element name of a value with no field name: its type's name.
XTypeName(n) ==
    CASE n.kind = "struct" -> n.tname
      [] n.kind = "string" -> NAME_string
      [] n.kind = "int" -> NAME_int
      [] n.kind = "float64" -> NAME_float64

\* xml.MarshalIndent of the value in cell a under element name `name` (<<>>:
\* the type's name): nil pointers and interfaces write nothing, a slice
\* writes its elements one after the other with no enclosing element, a
\* struct its exported fields; maps and channels are unsupported types.
RECURSIVE xmlMarshal(_, _, _, _)
xmlMarshal(h, a, name, fuel) ==
    LET n == h[a]
        nm == IF name = <<>> THEN XTypeName(n) ELSE name
    IN
    IF fuel = 0 THEN XFail
    ELSE CASE n.kind \in {"ptr", "interface"} ->
                IF n.isnil THEN XOk(<<>>) ELSE xmlMarshal(h, n.kids[1], name, fuel - 1)
      [] n.kind = "slice" ->
                ConcatX([i \in 1..Len(n.kids) |-> xmlMarshal(h, n.kids[i], name, fuel - 1)], 1)
      [] n.kind \in {"map", "chan"} -> XFail
      [] n.kind = "string" -> XOk(<<XElem(nm, DStr(n.s), <<>>)>>)
      [] n.kind \in {"int", "float64"} -> XOk(<<XElem(nm, DNum(n.n), <<>>)>>)
      [] n.kind = "struct" ->
                LET Exported(i) == CanInterface(n.names[i])
                    idx == SelectIdx(Len(n.names), Exported, 1)
                    kids == ConcatX([j \in 1..Len(idx) |->
                                       xmlMarshal(h, n.kids[idx[j]], n.names[idx[j]], fuel - 1)], 1)
                IN  IF kids.err THEN XFail ELSE XOk(<<XElem(nm, DNull, kids.elems)>>)

xmlMarshalArg(h, arg) ==
    IF arg.k \in {"nil", "nilptr"} THEN DEmpty
    ELSE LET r == xmlMarshal(h, arg.a, <<>>, MaxDepth)
         IN  IF r.err THEN DErr ELSE XDoc(r.elems)

\* The exported field an element decodes into: the one of that very name.
xmlField(names, name) ==
    LET hit == {i \in 1..Len(names) : CanInterface(names[i]) /\ names[i] = name}
    IN  IF hit = {} THEN 0 ELSE CHOOSE i \in hit : \A j \in hit : i <= j

\* xmlUnmarshal(r, el, a): decode element el into cell a.  A slice grows by
\* one element per element read; an interface is skipped; a scalar takes the
\* element's text; a struct takes the child elements and drops the text.
RECURSIVE xmlUnmarshal(_, _, _)
RECURSIVE xmlUnmarshalKids(_, _, _, _)
xmlUnmarshalKids(r, el, a, i) ==
    IF i > Len(el.kids) THEN r
    ELSE LET f == xmlField(r.h[a].names, el.kids[i].name)
             r2 == IF f = 0 THEN r ELSE xmlUnmarshal(r, el.kids[i], r.h[a].kids[f])
         IN  xmlUnmarshalKids(r2, el, a, i + 1)

xmlUnmarshal(r, el, a) ==
    LET n == r.h[a]
        Fail == [r EXCEPT !.err = TRUE]
    IN
    CASE n.kind = "interface" -> r
      [] n.kind \in {"map", "chan"} -> Fail
      [] n.kind = "string" ->
            IF el.val.k = "str" THEN [r EXCEPT !.h[a] = LString(el.val.s)] ELSE Fail
      [] n.kind \in {"int", "float64"} ->
            IF el.val.k = "num" THEN [r EXCEPT !.h[a] = [n EXCEPT !.n = el.val.n]] ELSE Fail
      [] n.kind = "ptr" ->
            IF n.isnil
            THEN LET b == Build(r.h, ZeroLit(n.e))
                     h2 == [b.h EXCEPT ![a] = [n EXCEPT !.isnil = FALSE, !.kids = <<b.a>>]]
                 IN  xmlUnmarshal([r EXCEPT !.h = h2], el, b.a)
            ELSE xmlUnmarshal(r, el, n.kids[1])
      [] n.kind = "slice" ->
            LET b == Build(r.h, ZeroLit(n.e))
                h2 == [b.h EXCEPT ![a] = [n EXCEPT !.isnil = FALSE, !.kids = Append(n.kids, b.a)]]
            IN  xmlUnmarshal([r EXCEPT !.h = h2], el, b.a)
      [] n.kind = "struct" -> xmlUnmarshalKids(r, el, a, 1)

\* xml.Unmarshal(b, cloning): cloning must be a non-nil pointer, and the text
\* must hold an element; the first one is decoded.
xmlUnmarshalArg(h, doc, arg) ==
    IF arg.k # "ptr" \/ doc.k # "xml" THEN [h |-> h, err |-> TRUE]
    ELSE xmlUnmarshal([h |-> h, err |-> FALSE], doc.elems[1], arg.a)

\* ------------------------------------------------------------------ names
\* Type names (N_), field names (F_) and map or policy keys (K_), spelled out.
N_User == <<"U","s","e","r">>
N_Users == <<"U","s","e","r","s">>
N_Mixed == <<"M","i","x","e","d">>
N_Inner == <<"I","n","n","e","r">>
N_Alias == <<"A","l","i","a","s">>
N_Job == <<"J","o","b">>
N_Node == <<"N","o","d","e">>
F_Next == <<"N","e","x","t">>
F_Username == <<"U","s","e","r","n","a","m","e">>
F_Password == <<"P","a","s","s","w","o","r","d">>
F_DbSecrets == <<"D","b","S","e","c","r","e","t","s">>
F_MapData == <<"M","a","p","D","a","t","a">>
F_UnsupportedMapData == <<"U","n","s","u","p","p","o","r","t","e","d","M","a","p","D","a","t","a">>
F_Secret == <<"S","e","c","r","e","t">>
F_Keys == <<"K","e","y","s">>
F_UserInfo == <<"U","s","e","r","I","n","f","o">>
F_password == <<"p","a","s","s","w","o","r","d">>
F_PASSWORD == <<"P","A","S","S","W","O","R","D">>
F_Token == <<"T","o","k","e","n">>
F_Inner == <<"I","n","n","e","r">>
F_Done == <<"D","o","n","e">>
F_Name == <<"N","a","m","e">>
K_72 == <<"7","2">>
K_91 == <<"9","1">>
K_86 == <<"8","6">>
K_77 == <<"7","7">>
K_n == <<"n">>
K_m == <<"m">>
K_password == <<"p","a","s","s","w","o","r","d">>
K_PassWord == <<"P","a","s","s","W","o","r","d">>
K_list == <<"l","i","s","t">>
K_keys == <<"k","e","y","s">>
K_secret == <<"s","e","c","r","e","t">>
K_dbsecrets == <<"d","b","s","e","c","r","e","t","s">>
K_userinfo == <<"u","s","e","r","i","n","f","o">>
K_mapdata == <<"m","a","p","d","a","t","a">>
K_Password == <<"P","a","s","s","w","o","r","d">>

\* ---------------------------------------------------------------- targets
\* The secret values: the prefixes of a text of distinct characters, the
\* empty string among them, and a text longer than the fixed mask.
Text == <<"a","b","c","d","e","f","g","h">>
LongText == <<"a","b","c","d","e","f","g","h","i">>
Strs == {SubSeq(Text, 1, k) : k \in 0..MaxStrLen} \cup {LongText}

\* scrub_test.go:15-21, with the map shapes of scrub_test.go:446-456 and a
\* few the walker does not support.
SampleUser(s) ==
    LStruct(N_User, <<F_Username, F_Password, F_DbSecrets, F_MapData, F_UnsupportedMapData>>,
      << LString(<<"u">>), LString(s), LSlice(TString, <<LString(<<"d">>), LString(s)>>),
         LMap(TInterface, <<K_72, K_91, K_PassWord, K_n, K_m, K_86>>,
           << LInterface(LSlice(TMap(TInterface),
                 << LMap(TInterface, <<K_86>>, <<LInterface(LString(s))>>),
                    LMap(TInterface, <<K_77, K_91>>,
                         <<LInterface(LString(<<"x">>)), LNilInterface>>) >>)),
              LInterface(LString(s)),
              LInterface(LString(s)),
              LInterface(LInt(7)),
              LInterface(LMap(TInterface, <<K_91>>, <<LInterface(LString(s))>>)),
              LInterface(LSlice(TString, <<LString(s)>>)) >>),
         LMap(TString, <<K_91>>, <<LString(s)>>) >>)

\* scrub_test.go:1015-1027: the nested structs of the first two generations.
SampleUsers(s) ==
    LStruct(N_Users, <<F_Secret, F_Keys, F_UserInfo>>,
      << LString(s), LSlice(TString, <<LString(<<"k">>), LString(s)>>),
         LSlice(TStruct(N_User, <<F_Username, F_Password, F_DbSecrets>>,
                        <<TString, TString, TSlice(TString)>>),
           << LStruct(N_User, <<F_Username, F_Password, F_DbSecrets>>,
                 <<LString(<<"u">>), LString(s), LSlice(TString, <<LString(s)>>)>>),
              LStruct(N_User, <<F_Username, F_Password, F_DbSecrets>>,
                 <<LString(<<"v">>), LString(<<>>), LNilSlice(TString)>>) >>) >>)

\* A struct with an unexported field, an upper-case name, a number under a
\* policy name, a pointer to a string, nested slices, an interface and a nil
\* pointer to a struct.
SampleMixed(s) ==
    LStruct(N_Mixed, <<F_password, F_PASSWORD, F_Secret, F_Password, F_Keys, F_Token, F_Inner>>,
      << LString(s), LString(s), LInt(5), LPtr(TString, LString(s)),
         LSlice(TSlice(TString), << LSlice(TString, <<LString(s)>>),
                                    LSlice(TString, <<LString(<<"k">>), LString(s)>>) >>),
         LInterface(LString(s)),
         LNilPtr(TStruct(N_Inner, <<F_Name>>, <<TString>>)) >>)

\* Two pointer fields; SampleHeaps makes them point to the same string.
SampleAlias(s) ==
    LStruct(N_Alias, <<F_Password, F_Secret, F_Name>>,
      << LPtr(TString, LString(s)), LPtr(TString, LString(s)), LString(<<"n">>) >>)

\* A struct the codecs cannot encode: it holds a channel.
SampleJob(s) ==
    LStruct(N_Job, <<F_Password, F_Done>>, <<LString(s), LChan>>)

\* Targets that are no struct: a string, a slice of strings, a map, and a
\* pointer to a struct (the caller passes a pointer to each).
SampleString(s) == LString(s)
SampleSlice(s) == LSlice(TString, <<LString(s), LString(<<"k">>)>>)
SampleMap(s) ==
    LMap(TInterface, <<K_password, K_list>>,
      << LInterface(LString(s)),
         LInterface(LSlice(TInterface,
            <<LInterface(LMap(TInterface, <<K_PassWord, K_list>>,
                <<LInterface(LString(s)),
                  LInterface(LSlice(TInterface,
                     <<LInterface(LMap(TInterface, <<K_password, K_n>>,
                          <<LInterface(LString(s)), LInterface(LString(s))>>))>>))>>))>>)) >>)
SamplePtr(s) == LPtr(TStruct(N_Inner, <<F_Name, F_Password>>, <<TString, TString>>),
                     LStruct(N_Inner, <<F_Name, F_Password>>, <<LString(<<"n">>), LString(s)>>))

\* A list node; CycleHeap makes its Next point to the node itself.
SampleNode(s) ==
    LStruct(N_Node, <<F_Password, F_Next>>,
      << LString(s), LPtr(TStruct(N_Node, <<>>, <<>>), LInt(0)) >>)

HeapOf(lit) == Build(<<>>, lit).h

\* The cyclic heap: cell 1 the node, 2 its string, 3 its pointer, which is
\* made to point to cell 1.
CycleHeap(s) == [HeapOf(SampleNode(s)) EXCEPT ![3].kids = <<1>>]

\* The Alias heap: cell 1 the struct, 2 and 4 its pointers, 3 and 5 the
\* strings; the second pointer is made to point to the first one's string.
AliasHeap(s) == [HeapOf(SampleAlias(s)) EXCEPT ![4].kids = <<3>>]

\* A struct the codecs cannot encode whose two pointer fields point to the
\* same string: the cells of the Alias heap, and a channel in cell 6.
AliasJobHeap(s) ==
    [HeapOf(LStruct(N_Alias, <<F_Password, F_Secret, F_Done>>,
                    <<LPtr(TString, LString(s)), LPtr(TString, LString(s)), LChan>>))
       EXCEPT ![4].kids = <<3>>]

SampleHeaps ==
    UNION { { HeapOf(SampleUser(s)), HeapOf(SampleUsers(s)), HeapOf(SampleMixed(s)),
              AliasHeap(s), HeapOf(SampleJob(s)), AliasJobHeap(s), HeapOf(SampleString(s)),
              HeapOf(SampleSlice(s)), HeapOf(SampleMap(s)), HeapOf(SamplePtr(s)) } : s \in Strs }

\* reflect.TypeOf of the value in a cell.
RECURSIVE TypeOfCell(_, _)
TypeOfCell(h, a) ==
    LET n == h[a] IN
    CASE n.kind = "string" -> TString
      [] n.kind = "int" -> TInt
      [] n.kind = "float64" -> TInt
      [] n.kind = "chan" -> TChan
      [] n.kind = "interface" -> TInterface
      [] n.kind = "slice" -> TSlice(n.e)
      [] n.kind = "ptr" -> TPtr(n.e)
      [] n.kind = "map" -> TMap(n.e)
      [] n.kind = "struct" ->
            TStruct(n.tname, n.names, [i \in 1..Len(n.kids) |-> TypeOfCell(h, n.kids[i])])

\* ---------------------------------------------------------------- policies
\* A fieldsToScrub argument: nil, or a map from names to options.
NilPolicy == [isnil |-> TRUE, m |-> <<>>]
Policy(m) == [isnil |-> FALSE, m |-> m]

Map1(k1, v1) == [k \in {k1} |-> v1]
\* The names of the larger policies; the empty name is one of them.
K_empty == <<>>
KeysToScrub == {K_password, K_secret, K_keys, K_dbsecrets, K_userinfo, K_mapdata, K_empty}

\* V1: map[string]bool; only the keys count.  The bool is kept in a record,
\* as the options of the later generations are.
BoolV1(b) == [on |-> b]
PoliciesV1 ==
    { NilPolicy,
      Policy(Map1(K_password, BoolV1(FALSE))),
      Policy([k \in KeysToScrub |-> BoolV1(TRUE)]),
      Policy(Map1(K_Password, BoolV1(TRUE))) }

\* V2: map[string]map[string]string.
PoliciesV2 ==
    { NilPolicy,
      Policy(Map1(K_password, OptsV2(FALSE, <<>>))),
      Policy([k \in KeysToScrub |-> IF k = K_keys THEN OptsV2(TRUE, <<".">>)
                               ELSE IF k = K_secret THEN OptsV2(TRUE, <<"x", "y">>)
                               ELSE OptsV2(TRUE, <<>>)]),
      Policy(Map1(K_Password, OptsV2(TRUE, <<"*">>))) }

\* V3: map[string]FieldScrubOptioner.  The partial policy masks values of
\* length 2..3, one character visible in front, and one at the back from
\* length 3 on.
PartialOpts == Opts(<<"#">>, TRUE, 2, 3, 1, 3, 1)
\* Options whose range reaches the long text, its length being the maximum
\* and the threshold of the visible back at once; and options whose visible
\* front is longer than the shortest value of their range.
WideOpts == Opts(<<"#">>, TRUE, 2, 9, 1, 9, 1)
ShortOpts == Opts(<<"#">>, TRUE, 1, 9, 2, 2, 1)
PoliciesV3 ==
    { NilPolicy,
      Policy(Map1(K_password, OptsNil)),
      Policy([k \in KeysToScrub \cup {K_91, K_86} |->
                IF k = K_keys THEN Opts(<<".">>, FALSE, 0, 0, 0, 0, 0)
                ELSE IF k = K_secret THEN Opts(<<"x", "y">>, FALSE, 0, 0, 0, 0, 0)
                ELSE IF k = K_dbsecrets THEN Opts(<<>>, FALSE, 2, 3, 1, 3, 1)
                ELSE OptsNil]),
      Policy([k \in {K_password, K_91} |-> PartialOpts]),
      Policy([k \in {K_password, K_secret} |->
                IF k = K_password THEN WideOpts ELSE ShortOpts]),
      Policy(Map1(K_Password, OptsNil)) }

\* ------------------------------------------------------------------- state
\* heap         the Go heap: the caller's target in cells 1..Len(orig), the
\*              clones of the calls in flight after it
\* orig         the target as the caller built it
\* MaskLenVary  scrub.go:156 (and 589)
\* DefaultToScrubV2  scrub.go:585-587, a package variable of V2
\* call         per caller: where its Scrub call stands, the arguments, the
\*              saved values (V1), the text returned and how the call ended
\*              (status), and, kept for the properties: the heap as it was
\*              when the call was made (pre), the encoding of the target
\*              then (plain) and of the clone before it is masked (cloned),
\*              and of a V1 call the values its mask pass has pushed (pushed)
\*              and the locations its two passes have come to (maskSeen,
\*              restoreSeen)
VARIABLES heap, orig, MaskLenVary, DefaultToScrubV2, call
vars == <<heap, orig, MaskLenVary, DefaultToScrubV2, call>>

Procs == {1, 2}
DataTypes == {"json", "xml", "yaml"}
NoDoc == [k |-> "none"]

Idle == [pc |-> "idle", gen |-> 0, target |-> ArgNil, cloning |-> ArgNil,
         fieldsToScrub |-> NilPolicy, dataType |-> "json", savedValues |-> <<>>,
         out |-> NoDoc, status |-> "", pre |-> <<>>, plain |-> NoDoc,
         cloned |-> NoDoc, pushed |-> <<>>, maskSeen |-> <<>>, restoreSeen |-> <<>>]

Init ==
    /\ heap \in SampleHeaps
    /\ orig = heap
    /\ MaskLenVary = FALSE
    /\ DefaultToScrubV2 = Map1(K_password, OptsV2(FALSE, <<>>))
    /\ call = [p \in Procs |-> Idle]

AllIdle == \A p \in Procs : call[p].pc = "idle"

\* The caller sets the package variable before it calls.
SetMaskLenVary(b) ==
    /\ AllIdle
    /\ MaskLenVary # b
    /\ MaskLenVary' = b
    /\ UNCHANGED <<heap, orig, DefaultToScrubV2, call>>

\* What a caller may pass for a value whose cell is Root.
Args == {ArgNil, ArgNilPtr, ArgPtr(Root), ArgVal(Root)}

\* ------------------------------------------------------------ V1: Scrub
\* part_000:51-55: nil input returns "null".
CallV1(p, input, fieldsToScrub) ==
    /\ call[p].pc = "idle"
    /\ call' = [call EXCEPT ![p] =
          IF input.k = "nil"
          THEN [Idle EXCEPT !.pc = "done", !.gen = 1, !.target = input,
                            !.fieldsToScrub = fieldsToScrub, !.out = DNull,
                            !.status = "invalid", !.pre = heap]
          ELSE [Idle EXCEPT !.pc = "mask", !.gen = 1, !.target = input,
                            !.fieldsToScrub = fieldsToScrub,
                            !.pre = heap, !.plain = jsonMarshalArg(heap, input)]]
    /\ UNCHANGED <<heap, orig, MaskLenVary, DefaultToScrubV2>>

\* Where a call stands after a pass of its walker: at the next step; unwound
\* by a run-time panic; or, the recursion having no end, with the goroutine's
\* stack beyond its limit, which ends the program ("fatal error: stack
\* overflow").
AfterPass(st, next) ==
    IF st.panic = NoPanic THEN next
    ELSE IF st.panic = "stack overflow" THEN "overflow"
    ELSE "panicked"

\* One pass of the V1 walker over the input, masking or restoring; a nil
\* policy is the default one (part_000:57-59).
PassV1(p, mask) ==
    scrubArgV1([h |-> heap, sv |-> call[p].savedValues, panic |-> NoPanic, seen |-> <<>>],
               call[p].target,
               IF call[p].fieldsToScrub.isnil THEN DefaultToScrubV1
               ELSE DOMAIN call[p].fieldsToScrub.m,
               mask)

\* part_000:62-63.
MaskV1(p) ==
    /\ call[p].pc = "mask" /\ call[p].gen = 1
    /\ LET st == PassV1(p, TRUE) IN
       /\ heap' = st.h
       /\ call' = [call EXCEPT ![p].savedValues = st.sv,
                               ![p].pushed = st.sv, ![p].maskSeen = st.seen,
                               ![p].pc = AfterPass(st, "encode")]
    /\ UNCHANGED <<orig, MaskLenVary, DefaultToScrubV2>>

\* part_000:66-67: the error of json.Marshal is dropped, b stays empty.
EncodeV1(p) ==
    /\ call[p].pc = "encode" /\ call[p].gen = 1
    /\ LET b == jsonMarshalArg(heap, call[p].target) IN
       call' = [call EXCEPT ![p].out = IF b = DErr THEN DEmpty ELSE b,
                            ![p].status = IF b = DErr THEN "encodefail" ELSE "ok",
                            ![p].pc = "restore"]
    /\ UNCHANGED <<heap, orig, MaskLenVary, DefaultToScrubV2>>

\* part_000:70-73.
RestoreV1(p) ==
    /\ call[p].pc = "restore" /\ call[p].gen = 1
    /\ LET st == PassV1(p, FALSE) IN
       /\ heap' = st.h
       /\ call' = [call EXCEPT ![p].savedValues = st.sv, ![p].restoreSeen = st.seen,
                               ![p].pc = AfterPass(st, "done")]
    /\ UNCHANGED <<orig, MaskLenVary, DefaultToScrubV2>>

\* ----------------------------------------------------- V2 and V3: Scrub
\* The empty representation of a format (scrub.go:236-246, 611-621).
EmptyOf(dataType) == IF dataType = "xml" THEN DEmpty ELSE DNull

\* The caller's clone receptacle (scrub.go:234, cloning interface{}): nil, a
\* nil pointer, or a pointer to a new zero value laid out after the heap's
\* last cell: of the target's type ("ptr"), or, the parameter taking any
\* value, of another type: an int ("num"), or a struct with a channel
\* ("job").
CloningKinds == {"nil", "nilptr", "ptr", "num", "job"}
CloningType(h, kind) ==
    CASE kind = "ptr" -> TypeOfCell(h, Root)
      [] kind = "num" -> TInt
      [] kind = "job" -> TStruct(N_Job, <<F_Password, F_Done>>, <<TString, TChan>>)
NewCloning(h, kind) ==
    IF kind \in {"ptr", "num", "job"}
    THEN LET b == Build(h, ZeroLit(CloningType(h, kind))) IN [h |-> b.h, arg |-> ArgPtr(b.a)]
    ELSE [h |-> h, arg |-> IF kind = "nil" THEN ArgNil ELSE ArgNilPtr]

\* scrub.go:234-247 (V3, gen 3) and 609-622 (V2, gen 2).
CallClone(p, gen, kind, target, fieldsToScrub, dataType) ==
    /\ call[p].pc = "idle"
    /\ LET c == NewCloning(heap, kind) IN
       /\ heap' = c.h
       /\ call' = [call EXCEPT ![p] =
             [Idle EXCEPT !.gen = gen, !.target = target, !.cloning = c.arg,
                          !.fieldsToScrub = fieldsToScrub, !.dataType = dataType,
                          !.pre = heap,
                          !.status = IF invalidInput(c.h, c.arg, target) THEN "invalid" ELSE "",
                          !.pc = IF invalidInput(c.h, c.arg, target) THEN "done" ELSE "clone",
                          !.out = IF invalidInput(c.h, c.arg, target)
                                  THEN EmptyOf(dataType) ELSE NoDoc]]
    /\ UNCHANGED <<orig, MaskLenVary, DefaultToScrubV2>>

CallV2(p, kind, target, fieldsToScrub, dataType) ==
    CallClone(p, 2, kind, target, fieldsToScrub, dataType)

CallV3(p, kind, target, fieldsToScrub, dataType) ==
    CallClone(p, 3, kind, target, fieldsToScrub, dataType)

\* A clone step that goes on with what a failed decoding has left in the
\* clone.
CloneStep_keepGoing(h, target, cloning, dataType) ==
    CASE dataType = "json" ->
            LET b == jsonMarshalArg(h, target) IN
            IF b = DErr THEN [h |-> h, err |-> TRUE]
            ELSE [h |-> jsonUnmarshalArg(h, b, cloning).h, err |-> FALSE]
      [] dataType = "xml" ->
            LET b == xmlMarshalArg(h, target) IN
            IF b = DErr THEN [h |-> h, err |-> TRUE]
            ELSE [h |-> xmlUnmarshalArg(h, b, cloning).h, err |-> FALSE]
      [] OTHER -> [h |-> h, err |-> TRUE]

\* scrub.go:249-275 and 624-651: the target is encoded and decoded into the
\* clone; a failure of either returns the empty representation.
CloneStep(h, target, cloning, dataType) ==
    CASE dataType = "json" ->
            LET b == jsonMarshalArg(h, target) IN
            IF b = DErr THEN [h |-> h, err |-> TRUE] ELSE jsonUnmarshalArg(h, b, cloning)
      [] dataType = "xml" ->
            LET b == xmlMarshalArg(h, target) IN
            IF b = DErr THEN [h |-> h, err |-> TRUE] ELSE xmlUnmarshalArg(h, b, cloning)
      [] OTHER -> [h |-> h, err |-> TRUE]

\* The encoding of an argument in a format (DErr: it fails).
EncodeArg(h, arg, dataType) ==
    CASE dataType = "json" -> jsonMarshalArg(h, arg)
      [] dataType = "xml" -> xmlMarshalArg(h, arg)
      [] OTHER -> DErr

Clone(p) ==
    /\ call[p].pc = "clone"
    /\ LET r == CloneStep(heap, call[p].target, call[p].cloning, call[p].dataType) IN
       /\ heap' = r.h
       /\ call' = [call EXCEPT ![p].pc = IF r.err THEN "done" ELSE "mask",
                               ![p].out = IF r.err THEN EmptyOf(call[p].dataType) ELSE NoDoc,
                               ![p].status = IF r.err THEN "clonefail" ELSE "",
                               ![p].plain = EncodeArg(heap, call[p].target, call[p].dataType),
                               ![p].cloned = IF r.err THEN NoDoc
                                             ELSE EncodeArg(r.h, call[p].cloning, call[p].dataType)]
    /\ UNCHANGED <<orig, MaskLenVary, DefaultToScrubV2>>

\* scrub.go:653-660: the default policy of V2 is the package variable, and
\* its "symbol" entry is written on every call that uses it.
MaskV2(p) ==
    /\ call[p].pc = "mask" /\ call[p].gen = 2
    /\ LET dflt == [DefaultToScrubV2 EXCEPT ![K_password] = OptsV2(TRUE, <<"*">>)]
           fs == IF call[p].fieldsToScrub.isnil THEN dflt ELSE call[p].fieldsToScrub.m
           st == scrubArgV2([h |-> heap, panic |-> NoPanic], call[p].cloning, fs, MaskLenVary)
       IN
       /\ heap' = st.h
       /\ DefaultToScrubV2' = IF call[p].fieldsToScrub.isnil THEN dflt ELSE DefaultToScrubV2
       /\ call' = [call EXCEPT ![p].pc = AfterPass(st, "encode")]
    /\ UNCHANGED <<orig, MaskLenVary>>

\* scrub.go:277-283.
MaskV3(p) ==
    /\ call[p].pc = "mask" /\ call[p].gen = 3
    /\ LET fs == IF call[p].fieldsToScrub.isnil THEN defaultToScrub ELSE call[p].fieldsToScrub.m
           st == scrubArg([h |-> heap, panic |-> NoPanic], call[p].cloning, fs, MaskLenVary)
       IN
       /\ heap' = st.h
       /\ call' = [call EXCEPT ![p].pc = AfterPass(st, "encode")]
    /\ UNCHANGED <<orig, MaskLenVary, DefaultToScrubV2>>

\* scrub.go:285-305 and 662-682: the clone is encoded and returned.
EncodeStep(h, cloning, dataType) ==
    LET b == EncodeArg(h, cloning, dataType) IN
    CASE dataType = "json" ->
            IF b = DErr THEN [out |-> DNull, status |-> "encodefail"]
            ELSE [out |-> b, status |-> "ok"]
      [] dataType = "xml" ->
            IF b = DErr THEN [out |-> DEmpty, status |-> "encodefail"]
            ELSE [out |-> b, status |-> "ok"]
      [] OTHER -> [out |-> DEmpty, status |-> "encodefail"]

EncodeClone(p) ==
    /\ call[p].pc = "encode" /\ call[p].gen \in {2, 3}
    /\ LET e == EncodeStep(heap, call[p].cloning, call[p].dataType) IN
       call' = [call EXCEPT ![p].out = e.out, ![p].status = e.status, ![p].pc = "done"]
    /\ UNCHANGED <<heap, orig, MaskLenVary, DefaultToScrubV2>>

\* The caller takes the text; the clone is garbage once no call is in flight.
Return(p) ==
    /\ call[p].pc = "done"
    /\ call' = [call EXCEPT ![p] = Idle]
    /\ heap' = IF \A q \in Procs \ {p} : call[q].pc = "idle"
               THEN SubSeq(heap, 1, Len(orig)) ELSE heap
    /\ UNCHANGED <<orig, MaskLenVary, DefaultToScrubV2>>

\* One caller at a time.
Step(p) ==
    \/ \E input \in Args, fs \in PoliciesV1 : CallV1(p, input, fs)
    \/ MaskV1(p)
    \/ EncodeV1(p)
    \/ RestoreV1(p)
    \/ \E kind \in CloningKinds, target \in Args, fs \in PoliciesV2, dt \in DataTypes :
          CallV2(p, kind, target, fs, dt)
    \/ \E kind \in CloningKinds, target \in Args, fs \in PoliciesV3, dt \in DataTypes :
          CallV3(p, kind, target, fs, dt)
    \/ Clone(p)
    \/ MaskV2(p)
    \/ MaskV3(p)
    \/ EncodeClone(p)
    \/ Return(p)

Next ==
    \/ \E b \in BOOLEAN : SetMaskLenVary(b)
    \/ Step(1)

Spec == Init /\ [][Next]_vars

\* ------------------------------------------------------ concurrent callers
\* Two goroutines call Scrub on the one target, each with its own clone
\* receptacle.  A program links one generation of the package: the calls in
\* flight are of the same generation.  A call with a clone starts while the
\* heap has no more than MaxHeap cells: the target and one clone, so that
\* the clones of returned calls do not pile up while another call is in
\* flight.
MaxHeap == 8

ConcPoliciesV1 == { NilPolicy, Policy(Map1(K_Password, BoolV1(TRUE))) }
ConcPoliciesV2 == { NilPolicy, Policy(Map1(K_password, OptsV2(TRUE, <<".">>))) }
ConcPoliciesV3 == { NilPolicy, Policy([k \in {K_password, K_91} |-> PartialOpts]) }

ConcHeaps == { HeapOf(SamplePtr(s)) : s \in {<<"a">>, LongText} }

InitConc ==
    /\ heap \in ConcHeaps
    /\ orig = heap
    /\ MaskLenVary = FALSE
    /\ DefaultToScrubV2 = Map1(K_password, OptsV2(FALSE, <<>>))
    /\ call = [p \in Procs |-> Idle]

SameGen(p, gen) == \A q \in Procs \ {p} : call[q].pc = "idle" \/ call[q].gen = gen

\* scrub.go:653-657: a V2 call with a nil policy writes the "symbol" entry of
\* the package's map and then reads the map in its walk, with no lock.  Two
\* such calls that both stand before that write race on the map: the build
\* may run them as MaskV2 does, one after the other, or the runtime detects
\* the concurrent map access and ends the program ("fatal error: concurrent
\* map writes").
RaceV2(p) ==
    /\ call[p].pc = "mask" /\ call[p].gen = 2 /\ call[p].fieldsToScrub.isnil
    /\ \E q \in Procs \ {p} :
          call[q].pc = "mask" /\ call[q].gen = 2 /\ call[q].fieldsToScrub.isnil
    /\ call' = [q \in Procs |-> [call[q] EXCEPT !.pc = "fatal"]]
    /\ UNCHANGED <<heap, orig, MaskLenVary, DefaultToScrubV2>>

StepConc(p) ==
    \/ /\ SameGen(p, 1)
       /\ \E fs \in ConcPoliciesV1 : CallV1(p, ArgPtr(Root), fs)
    \/ MaskV1(p)
    \/ EncodeV1(p)
    \/ RestoreV1(p)
    \/ /\ SameGen(p, 2) /\ Len(heap) <= MaxHeap
       /\ \E fs \in ConcPoliciesV2, dt \in {"json", "xml"} :
             CallV2(p, "ptr", ArgPtr(Root), fs, dt)
    \/ /\ SameGen(p, 3) /\ Len(heap) <= MaxHeap
       /\ \E fs \in ConcPoliciesV3, dt \in {"json", "xml"} :
             CallV3(p, "ptr", ArgPtr(Root), fs, dt)
    \/ Clone(p)
    \/ MaskV2(p)
    \/ RaceV2(p)
    \/ MaskV3(p)
    \/ EncodeClone(p)
    \/ Return(p)

NextConc ==
    \/ \E b \in BOOLEAN : SetMaskLenVary(b)
    \/ \E p \in Procs : StepConc(p)

SpecConc == InitConc /\ [][NextConc]_vars

\* ------------------------------------------------------ calls that must end
\* One caller of the first generation, the one that walks the caller's own
\* value, and among its targets the cyclic one.  A call that has started goes
\* on: the goroutine is scheduled as long as it can take a step.
LiveHeaps ==
    UNION { { CycleHeap(s), HeapOf(SamplePtr(s)), AliasHeap(s), HeapOf(SampleSlice(s)) }
            : s \in Strs }

\* The caller passes nil or the address of its value.
LiveArgs == {ArgNil, ArgPtr(Root)}

InitLive ==
    /\ heap \in LiveHeaps
    /\ orig = heap
    /\ MaskLenVary = FALSE
    /\ DefaultToScrubV2 = Map1(K_password, OptsV2(FALSE, <<>>))
    /\ call = [p \in Procs |-> Idle]

\* The steps of a call that is in flight.  Each moves the call on: fairness
\* is asked of the steps that change where the call stands.
Advance(p) == MaskV1(p) \/ EncodeV1(p) \/ RestoreV1(p)

StepLive(p) ==
    \/ \E input \in LiveArgs, fs \in PoliciesV1 : CallV1(p, input, fs)
    \/ Advance(p)
    \/ Return(p)

NextLive == StepLive(1)

StandsAt == call[1].pc

SpecLive == InitLive /\ [][NextLive]_vars /\ WF_StandsAt(Advance(1))

\* ------------------------------------------------- what the properties see
\* The string values a text shows, in the order it shows them.
RECURSIVE Flatten(_, _)
Flatten(seqs, i) == IF i > Len(seqs) THEN <<>> ELSE seqs[i] \o Flatten(seqs, i + 1)

RECURSIVE XStrings(_)
XStrings(e) ==
    (IF e.val.k = "str" THEN <<e.val.s>> ELSE <<>>)
    \o Flatten([i \in 1..Len(e.kids) |-> XStrings(e.kids[i])], 1)

RECURSIVE DocStrings(_)
DocStrings(d) ==
    CASE d.k = "str" -> <<d.s>>
      [] d.k \in {"arr", "obj"} -> Flatten([i \in 1..Len(d.vals) |-> DocStrings(d.vals[i])], 1)
      [] d.k = "xml" -> Flatten([i \in 1..Len(d.elems) |-> XStrings(d.elems[i])], 1)
      [] OTHER -> <<>>

\* The string locations of a value that an encoding shows, in the order it
\* shows them.  A location is described by its cell, the string it holds (s), its field
\* name (name: the name of the nearest enclosing record field or map key,
\* <<>> when there is none) and the steps that lead to it from the value:
\*   "field"  into an exported field of a record
\*   "idx"    into an element of a sequence
\*   "ptr"    through a pointer          "iface"  through an interface value
\*   "key"    into an entry of a map of string to any value
\*   "skey"   into an entry of a map of any other type
\* Below a "key" the values are dynamic: there a record counts as the map it
\* is encoded as ("key"), a sequence gives "didx", and pointers and interface
\* values give no step.
RECURSIVE TargetLeaves(_, _, _, _, _, _)
TargetLeaves(h, a, name, steps, dyn, fuel) ==
    LET n == h[a]
        Sub(i, nm, tag, d) == TargetLeaves(h, n.kids[i], nm, Append(steps, tag), d, fuel - 1)
    IN
    IF fuel = 0 THEN <<>>
    ELSE CASE n.kind = "string" -> <<[cell |-> a, s |-> n.s, name |-> name, steps |-> steps]>>
      [] n.kind \in {"int", "float64", "chan"} -> <<>>
      [] n.kind \in {"ptr", "interface"} ->
            IF n.isnil THEN <<>>
            ELSE TargetLeaves(h, n.kids[1], name,
                              IF dyn THEN steps
                              ELSE Append(steps, IF n.kind = "ptr" THEN "ptr" ELSE "iface"),
                              dyn, fuel - 1)
      [] n.kind = "slice" ->
            Flatten([i \in 1..Len(n.kids) |->
                        Sub(i, name, IF dyn THEN "didx" ELSE "idx", dyn)], 1)
      [] n.kind = "map" ->
            Flatten([i \in 1..Len(n.kids) |->
                        Sub(i, n.keys[i],
                            IF dyn \/ n.e.t = "interface" THEN "key" ELSE "skey",
                            dyn \/ n.e.t = "interface")], 1)
      [] n.kind = "struct" ->
            Flatten([i \in 1..Len(n.kids) |->
                        IF CanInterface(n.names[i])
                        THEN Sub(i, n.names[i], IF dyn THEN "key" ELSE "field", dyn)
                        ELSE <<>>], 1)

\* Whether the traversal rules reach a location: records, sequences and one
\* pointer at a time are entered; from the third generation on, so is a map
\* of string to any value: its string entries, and the maps that are
\* elements of a sequence it holds, at every depth.
RECURSIVE WalkState(_, _, _, _)
WalkState(gen, steps, i, q) ==
    IF i > Len(steps) THEN q
    ELSE LET t == steps[i]
             q2 == CASE q \in {"S", "P"} /\ t \in {"field", "idx"} -> "S"
                     [] q = "S" /\ t = "ptr" -> "P"
                     [] q \in {"S", "P"} /\ t = "key" /\ gen = 3 -> "K"
                     [] q = "K" /\ t = "didx" -> "A"
                     [] q = "A" /\ t = "key" -> "K"
                     [] OTHER -> "X"
         IN  WalkState(gen, steps, i + 1, q2)

Reached(gen, d) ==
    LET q == WalkState(gen, d.steps, 1, "S")
    IN  (q \in {"S", "P"} /\ d.name # <<>>) \/ q = "K"

\* A call that has returned a text it encoded.
Returned(p) == call[p].pc = "done" /\ call[p].status = "ok"

\* The codec gave the clone everything the target shows (V1 has no clone).
Lossless(p) == call[p].gen = 1 \/ call[p].cloned = call[p].plain

\* The locations of the target of a call, and the strings its result shows.
LeavesOf(p) ==
    IF call[p].target.k \in {"ptr", "val"}
    THEN TargetLeaves(call[p].pre, call[p].target.a, <<>>, <<>>, FALSE, MaxDepth)
    ELSE <<>>

Shown(p) == DocStrings(call[p].out)

\* The names of the policy a call works with.
PolicyNames(p) ==
    IF call[p].fieldsToScrub.isnil THEN {K_password} ELSE DOMAIN call[p].fieldsToScrub.m

\* The text with every string value blanked: its shape, names and numbers.
RECURSIVE XBlank(_)
XBlank(e) ==
    [e EXCEPT !.val = IF e.val.k = "str" THEN DStr(<<>>) ELSE e.val,
              !.kids = [i \in 1..Len(e.kids) |-> XBlank(e.kids[i])]]

RECURSIVE Blank(_)
Blank(d) ==
    CASE d.k = "str" -> DStr(<<>>)
      [] d.k \in {"arr", "obj"} -> [d EXCEPT !.vals = [i \in 1..Len(d.vals) |-> Blank(d.vals[i])]]
      [] d.k = "xml" -> [d EXCEPT !.elems = [i \in 1..Len(d.elems) |-> XBlank(d.elems[i])]]
      [] OTHER -> d

\* A returned text that shows the target's locations one for one, with the
\* shape, the names and the numbers of the target's own encoding.
SameShape(p) ==
    /\ Len(Shown(p)) = Len(LeavesOf(p))
    /\ Blank(call[p].out) = Blank(call[p].plain)

\* The location's name is in the policy, as the engine looks it up.
Matched(p, d) == ToLower(d.name) \in PolicyNames(p)

\* The location is one the walk of the call's generation reaches; V1 walks
\* only what it is given the address of: a pointer to the target, or a target
\* that is a pointer itself.
ByAddress(p) ==
    \/ call[p].target.k = "ptr"
    \/ call[p].target.k = "val" /\ call[p].pre[call[p].target.a].kind = "ptr"

InReach(p, d) ==
    /\ call[p].gen = 1 => ByAddress(p)
    /\ Reached(call[p].gen, d)

\* The masking strategy: symbol resolution, then the decision order between
\* the full, the front-visible and the middle-visible mask.
SpecSymbol(opts) == IF ~opts.isnil /\ Len(opts.symbol) = 1 THEN opts.symbol ELSE <<"*">>

SpecFullMask(value, symbol, lenVary) == Repeat(symbol, IF lenVary THEN Len(value) ELSE 8)

SpecMask(value, opts, lenVary) ==
    LET symbol == SpecSymbol(opts)
        len == Len(value)
    IN  IF opts.isnil \/ ~opts.PartMaskEnabled THEN SpecFullMask(value, symbol, lenVary)
        ELSE IF len < opts.PartMaskMinFldLen THEN SpecFullMask(value, symbol, lenVary)
        ELSE IF len > opts.PartMaskMaxFldLen THEN SpecFullMask(value, symbol, lenVary)
        ELSE IF len < opts.PartMaskVisibleBackOnlyIfFldLenGreaterThan
        THEN SubSeq(value, 1, opts.PartMaskVisibleFrontLen)
             \o Repeat(symbol, len - opts.PartMaskVisibleFrontLen)
        ELSE SubSeq(value, 1, opts.PartMaskVisibleFrontLen)
             \o Repeat(symbol, (len - opts.PartMaskVisibleFrontLen) - opts.PartMaskVisibleBackLen)
             \o SubSeq(value, len - opts.PartMaskVisibleBackLen + 1, len)

\* The options a call has for a matched location (nil: none given).
OptsOf(p, d) ==
    IF call[p].fieldsToScrub.isnil THEN OptsNil ELSE call[p].fieldsToScrub.m[ToLower(d.name)]

\* The mask a matched, non-empty location is to show: V1 has the one fixed
\* mask, V2 repeats the symbol its options give, V3 follows the strategy.
ExpectedMask(p, d) ==
    CASE call[p].gen = 1 -> Repeat(<<"*">>, 8)
      [] call[p].gen = 2 ->
            LET symbol == IF ~call[p].fieldsToScrub.isnil /\ OptsOf(p, d).hasSymbol
                          THEN OptsOf(p, d).symbol ELSE <<"*">>
            IN  Repeat(symbol, IF MaskLenVary THEN Len(d.s) ELSE 8)
      [] call[p].gen = 3 -> SpecMask(d.s, OptsOf(p, d), MaskLenVary)

\* ---------------------------------------------------------------- claims
\* What a returned text shows is compared with the target location by
\* location.  V2 and V3 mask a clone that the codec has made, and the format
\* codec is taken to round-trip the target (spec 4.4): the properties of the
\* text are stated for the calls where it does (Lossless), which is every
\* JSON call and the XML calls on targets without interface values or a
\* sequence at the top.
\* C1: (V1, mask in place and restore) once the call has returned, every
\* string location of the target holds exactly the value it held before the
\* call: the target is deep-equal to what it was.
C1_NonDestruction ==
    \A p \in Procs : (call[p].gen = 1 /\ call[p].pc = "done") => heap = call[p].pre

\* C2: (V2 and V3, clone and mutate) a call never writes to the target: at
\* every step of the call and after it the target is what it was when the
\* call was made; only cells of the clone change.
C2_TargetNeverWritten ==
    \A p \in Procs :
        (call[p].gen \in {2, 3} /\ call[p].pc # "idle")
        => SubSeq(heap, 1, Len(call[p].pre)) = call[p].pre

\* A call of V2 or V3 has returned a text in which a value is masked.
C2_Witness ==
    \E p \in Procs :
        /\ call[p].gen \in {2, 3} /\ Returned(p)
        /\ call[p].out # call[p].plain

\* C3: (V2 and V3, fixed length, lossless codec) with an absent (nil) policy the default
\* policy {password} is used: the text shows the target as it is encoded,
\* except that every non-empty string location named "password" that the
\* walk reaches shows "********"; every other location shows its value.
C3_DefaultPolicy ==
    \A p \in Procs :
        (/\ Returned(p) /\ Lossless(p) /\ call[p].gen \in {2, 3}
         /\ call[p].fieldsToScrub.isnil /\ ~MaskLenVary)
        => LET L == LeavesOf(p)
               S == Shown(p)
           IN  /\ SameShape(p)
               /\ \A i \in 1..Len(L) :
                     S[i] = IF /\ Reached(call[p].gen, L[i])
                               /\ ToLower(L[i].name) = K_password
                               /\ L[i].s # <<>>
                            THEN <<"*","*","*","*","*","*","*","*">>
                            ELSE L[i].s

\* A call of V3 with a nil policy has returned a text that shows the mask
\* for a password and the value of another non-empty field.
C3_Witness ==
    \E p \in Procs :
        /\ Returned(p) /\ Lossless(p) /\ call[p].gen = 3
        /\ call[p].fieldsToScrub.isnil /\ ~MaskLenVary
        /\ LET L == LeavesOf(p)
               S == Shown(p)
           IN  /\ \E i \in 1..Len(L) :
                     /\ L[i].name = F_Password /\ L[i].s # <<>>
                     /\ S[i] = <<"*","*","*","*","*","*","*","*">>
               /\ \E j \in 1..Len(L) :
                     /\ ToLower(L[j].name) # K_password /\ L[j].s # <<>> /\ S[j] = L[j].s

\* Whether the policy of a V3 call gives a location the full mask: it has no
\* options, partial masking is off, or the length is outside min..max.
FullMaskCase(p, d) ==
    LET opts == OptsOf(p, d) IN
    \/ opts.isnil
    \/ ~opts.PartMaskEnabled
    \/ Len(d.s) < opts.PartMaskMinFldLen
    \/ Len(d.s) > opts.PartMaskMaxFldLen

\* C4: (V3, lossless codec) the full mask of a masked location is 8 symbols long when
\* MaskLenVary is off, whatever the length of the value, and as long as the
\* value when MaskLenVary is on.
C4_FullMaskLength ==
    \A p \in Procs :
        (Returned(p) /\ Lossless(p) /\ call[p].gen = 3)
        => LET L == LeavesOf(p)
               S == Shown(p)
           IN  /\ Len(S) = Len(L)
               /\ \A i \in 1..Len(L) :
                     (/\ InReach(p, L[i]) /\ Matched(p, L[i]) /\ L[i].s # <<>>
                      /\ FullMaskCase(p, L[i]))
                     => /\ Len(S[i]) = IF MaskLenVary THEN Len(L[i].s) ELSE 8
                        /\ \A k \in 1..Len(S[i]) : S[i][k] = SpecSymbol(OptsOf(p, L[i]))[1]

\* With MaskLenVary on, a value of nine characters shows a mask of nine, and
\* in the same text a value of one character a mask of one.
C4_Witness ==
    \E p \in Procs :
        /\ Returned(p) /\ Lossless(p) /\ call[p].gen = 3 /\ MaskLenVary
        /\ LET L == LeavesOf(p)
               S == Shown(p)
           IN  \E i, j \in 1..Len(L) :
                  /\ Matched(p, L[i]) /\ FullMaskCase(p, L[i])
                  /\ Len(L[i].s) = 9 /\ Len(S[i]) = 9 /\ S[i] # L[i].s
                  /\ Matched(p, L[j]) /\ FullMaskCase(p, L[j])
                  /\ Len(L[j].s) = 1 /\ Len(S[j]) = 1 /\ S[j] # L[j].s

\* C5: (V2 and V3, lossless codec) a record field or map entry whose lower-cased name is not
\* in the policy shows, in the returned text, exactly the value it has in the
\* target, and the text has the shape, the names and the numbers of the
\* target's own encoding.
C5_UnmatchedUntouched ==
    \A p \in Procs :
        (Returned(p) /\ Lossless(p) /\ call[p].gen \in {2, 3})
        => LET L == LeavesOf(p)
               S == Shown(p)
           IN  /\ SameShape(p)
               /\ \A i \in 1..Len(L) : ~Matched(p, L[i]) => S[i] = L[i].s

\* A text in which a value is masked while a map entry and a record field of
\* other names show their values.
C5_Witness ==
    \E p \in Procs :
        /\ Returned(p) /\ Lossless(p) /\ call[p].gen = 3
        /\ LET L == LeavesOf(p)
               S == Shown(p)
           IN  /\ \E i \in 1..Len(L) : S[i] # L[i].s
               /\ \E j \in 1..Len(L) :
                     /\ ~Matched(p, L[j]) /\ L[j].s # <<>> /\ S[j] = L[j].s
                     /\ L[j].steps[Len(L[j].steps)] = "key"
               /\ \E j \in 1..Len(L) :
                     /\ ~Matched(p, L[j]) /\ L[j].s # <<>> /\ S[j] = L[j].s
                     /\ L[j].steps[Len(L[j].steps)] = "field"

\* C6: (every generation, MaskLenVary on or off, lossless codec) a location that holds the
\* empty string shows the empty string, also under a name of the policy.
C6_EmptyStaysEmpty ==
    \A p \in Procs :
        (Returned(p) /\ Lossless(p))
        => LET L == LeavesOf(p)
               S == Shown(p)
           IN  /\ Len(S) = Len(L)
               /\ \A i \in 1..Len(L) : L[i].s = <<>> => S[i] = <<>>

\* A text that shows an empty string under a name of the policy, next to a
\* masked value.
C6_Witness ==
    \E p \in Procs :
        /\ Returned(p) /\ Lossless(p)
        /\ LET L == LeavesOf(p)
               S == Shown(p)
           IN  /\ \E i \in 1..Len(L) :
                     /\ InReach(p, L[i]) /\ Matched(p, L[i])
                     /\ L[i].s = <<>> /\ S[i] = <<>>
               /\ \E j \in 1..Len(L) : S[j] # L[j].s

\* The field names under which the walk of a call reaches the location i: in
\* V1, which works on the target itself, the names of every path to the
\* location's cell; with a clone, where every path has its own copy, the
\* name of the path.
NamesAt(p, L, i) ==
    IF call[p].gen = 1
    THEN {L[j].name : j \in {k \in 1..Len(L) : L[k].cell = L[i].cell /\ InReach(p, L[k])}}
    ELSE IF InReach(p, L[i]) THEN {L[i].name} ELSE {}

\* C7 as the claim words it: a non-empty string location the walk reaches
\* shows its mask if its field name equals some policy name when letter case
\* is ignored on both sides, and its value if not.
C7_IgnoringCase ==
    \A p \in Procs :
        (Returned(p) /\ Lossless(p))
        => LET L == LeavesOf(p)
               S == Shown(p)
           IN  /\ Len(S) = Len(L)
               /\ \A i \in 1..Len(L) :
                     (NamesAt(p, L, i) # {} /\ L[i].s # <<>>)
                     => S[i] = IF \E n \in NamesAt(p, L, i), k \in PolicyNames(p) :
                                     ToLower(n) = ToLower(k)
                               THEN ExpectedMask(p, L[i]) ELSE L[i].s

\* C7: (every generation, lossless codec) a non-empty string location the walk reaches shows its mask if its
\* field name, put in lower case, is a name of the policy, and its value if
\* not: the case of the field name is ignored, the policy name is taken as
\* it is written.
C7_LowerCasedName ==
    \A p \in Procs :
        (Returned(p) /\ Lossless(p))
        => LET L == LeavesOf(p)
               S == Shown(p)
           IN  /\ Len(S) = Len(L)
               /\ \A i \in 1..Len(L) :
                     (NamesAt(p, L, i) # {} /\ L[i].s # <<>>)
                     => S[i] = IF \E n \in NamesAt(p, L, i) : ToLower(n) \in PolicyNames(p)
                               THEN ExpectedMask(p, L[i]) ELSE L[i].s

\* A text that masks a field written PASSWORD and one written Password under
\* the policy name password.
C7_Witness ==
    \E p \in Procs :
        /\ Returned(p) /\ Lossless(p) /\ K_password \in PolicyNames(p)
        /\ LET L == LeavesOf(p)
               S == Shown(p)
           IN  \E i, j \in 1..Len(L) :
                  /\ L[i].name = F_PASSWORD /\ L[i].s # <<>> /\ S[i] # L[i].s
                  /\ L[j].name = F_Password /\ L[j].s # <<>> /\ S[j] # L[j].s

\* C8: a call of V2 or V3 whose target is nil (the nil interface or a nil
\* pointer) or whose clone receptacle is nil returns at once "null" (JSON,
\* and any format but XML) or "" (XML): nothing is encoded, decoded, walked
\* or written.  V1 returns "null" for a nil input, and leaves the heap as it
\* is.
C8_InvalidInput ==
    \A p \in Procs :
        /\ (/\ call[p].gen \in {2, 3} /\ call[p].pc # "idle"
            /\ \/ call[p].target.k \in {"nil", "nilptr"}
               \/ call[p].cloning.k \in {"nil", "nilptr"})
           => /\ call[p].pc = "done" /\ call[p].status = "invalid"
              /\ call[p].out = IF call[p].dataType = "xml" THEN DEmpty ELSE DNull
              /\ call[p].plain = NoDoc /\ call[p].cloned = NoDoc
              /\ SubSeq(heap, 1, Len(call[p].pre)) = call[p].pre
              /\ \A a \in (Len(call[p].pre) + 1)..Len(heap) : IsZero(heap, a)
        /\ (call[p].gen = 1 /\ call[p].pc # "idle" /\ call[p].target.k = "nil")
           => /\ call[p].pc = "done" /\ call[p].out = DNull
              /\ heap = call[p].pre /\ call[p].savedValues = <<>>
        /\ (call[p].gen = 1 /\ call[p].pc = "done" /\ call[p].target.k = "nilptr")
           => call[p].out = DNull /\ heap = call[p].pre

\* A call of V3 with a nil pointer for target, a clone receptacle that is
\* fine and the XML format has returned "".
C8_Witness ==
    \E p \in Procs :
        /\ call[p].gen = 3 /\ call[p].pc = "done"
        /\ call[p].target.k = "nilptr" /\ call[p].cloning.k = "ptr"
        /\ call[p].dataType = "xml" /\ call[p].out = DEmpty

\* C9: (V3, lossless codec) in a map of string to any value that the walk reaches, an entry
\* whose key is in the policy and whose value is a non-empty string shows
\* the mask of that key's policy; so does such an entry of a map that is an
\* element of a sequence held by an entry, at every depth.
C9_MapKeyMasking ==
    \A p \in Procs :
        (Returned(p) /\ Lossless(p) /\ call[p].gen = 3)
        => LET L == LeavesOf(p)
               S == Shown(p)
           IN  /\ Len(S) = Len(L)
               /\ \A i \in 1..Len(L) :
                     (/\ WalkState(3, L[i].steps, 1, "S") = "K"
                      /\ Matched(p, L[i]) /\ L[i].s # <<>>)
                     => S[i] = SpecMask(L[i].s, OptsOf(p, L[i]), MaskLenVary)

\* A text that masks an entry of the map itself and an entry two sequences
\* of maps further down.
C9_Witness ==
    \E p \in Procs :
        /\ Returned(p) /\ Lossless(p) /\ call[p].gen = 3
        /\ LET L == LeavesOf(p)
               S == Shown(p)
           IN  \E i, j \in 1..Len(L) :
                  /\ L[i].steps = <<"key">> /\ Matched(p, L[i]) /\ S[i] # L[i].s
                  /\ L[j].steps = <<"key", "didx", "key", "didx", "key">>
                  /\ Matched(p, L[j]) /\ S[j] # L[j].s

\* C10: (every generation, lossless codec) a string that is an element of a sequence, at any depth of sequences
\* in sequences, goes by the name of the record field that holds the
\* sequence: non-empty and under a name of the policy it shows the mask of
\* that name's policy.  A field of a record that is an element of a sequence
\* goes by its own name, whatever the name of the sequence.
C10_SequenceElements ==
    \A p \in Procs :
        (Returned(p) /\ Lossless(p))
        => LET L == LeavesOf(p)
               S == Shown(p)
           IN  /\ Len(S) = Len(L)
               /\ \A i \in 1..Len(L) :
                     (/\ InReach(p, L[i])
                      /\ \E k \in 1..Len(L[i].steps) : L[i].steps[k] = "idx"
                      /\ \A k \in 1..Len(L[i].steps) : L[i].steps[k] \in {"field", "idx", "ptr"})
                     => S[i] = IF Matched(p, L[i]) /\ L[i].s # <<>>
                               THEN ExpectedMask(p, L[i]) ELSE L[i].s

\* Under a policy that names UserInfo, Keys and DbSecrets, a text that masks
\* an element of Keys and an element of the DbSecrets of a user, and shows
\* the Username of that user.
C10_Witness ==
    \E p \in Procs :
        /\ Returned(p) /\ Lossless(p) /\ K_userinfo \in PolicyNames(p)
        /\ LET L == LeavesOf(p)
               S == Shown(p)
           IN  \E i, j, k \in 1..Len(L) :
                  /\ L[i].steps = <<"field", "idx">> /\ L[i].name = F_Keys
                  /\ S[i] = ExpectedMask(p, L[i]) /\ S[i] # L[i].s
                  /\ L[j].steps = <<"field", "idx", "field", "idx">> /\ L[j].name = F_DbSecrets
                  /\ S[j] = ExpectedMask(p, L[j]) /\ S[j] # L[j].s
                  /\ L[k].steps = <<"field", "idx", "field">> /\ L[k].name = F_Username
                  /\ S[k] = L[k].s

\* Whether decoding the target's text into a new receptacle of the type the
\* call was given fails.
DecodeFails(p) ==
    LET b == Build(call[p].pre, ZeroLit(TypeOfCell(heap, call[p].cloning.a)))
    IN  CASE call[p].dataType = "json" -> jsonUnmarshalArg(b.h, call[p].plain, ArgPtr(b.a)).err
          [] call[p].dataType = "xml" -> xmlUnmarshalArg(b.h, call[p].plain, ArgPtr(b.a)).err

\* A call of V2 or V3 on valid arguments in JSON or XML that has ended.
EndedClone(p) ==
    /\ call[p].gen \in {2, 3} /\ call[p].pc = "done"
    /\ call[p].status # "invalid" /\ call[p].dataType \in {"json", "xml"}

\* C11: (V2 and V3, JSON and XML, valid arguments) if the codec fails to
\* encode the target, to decode its text into the clone, or to encode the
\* masked clone, the call returns the empty value of the format: "null" for
\* JSON, "" for XML.  If none of the three fails it returns the whole
\* encoding of the clone as the walk has left it; it returns nothing else.
C11_CodecFailure ==
    \A p \in Procs :
        EndedClone(p)
        => LET final == EncodeArg(heap, call[p].cloning, call[p].dataType)
               failed == \/ call[p].plain = DErr
                         \/ DecodeFails(p)
                         \/ final = DErr
           IN  /\ failed => /\ call[p].status # "ok"
                            /\ call[p].out = IF call[p].dataType = "json" THEN DNull ELSE DEmpty
               /\ ~failed => call[p].status = "ok" /\ call[p].out = final

\* A JSON call whose target's text does not fit the clone has returned
\* "null".
C11_Witness ==
    \E p \in Procs :
        /\ EndedClone(p) /\ call[p].dataType = "json"
        /\ call[p].plain # DErr /\ DecodeFails(p)
        /\ call[p].out = DNull

\* C12: (V1) when the input is a value that is no pointer, the walk returns
\* at once: throughout the call the target is what it was and nothing is
\* saved, and the text returned is what json.Marshal gives for the input as
\* it is, the values under policy names not masked.
C12_PassedByValue ==
    \A p \in Procs :
        (call[p].gen = 1 /\ call[p].pc # "idle" /\ call[p].target.k = "val" /\ ~ByAddress(p))
        => /\ heap = call[p].pre
           /\ call[p].savedValues = <<>>
           /\ call[p].pc # "panicked"
           /\ call[p].pc = "done"
              => /\ call[p].out = IF call[p].plain = DErr THEN DEmpty ELSE call[p].plain
                 /\ LET L == LeavesOf(p)
                        S == Shown(p)
                    IN  call[p].plain # DErr
                        => /\ Len(S) = Len(L)
                           /\ \A i \in 1..Len(L) : S[i] = L[i].s

\* A call on a User passed by value, with Password in the policy, has
\* returned a text that shows the password.
C12_Witness ==
    \E p \in Procs :
        /\ call[p].gen = 1 /\ call[p].pc = "done" /\ call[p].target.k = "val" /\ ~ByAddress(p)
        /\ LET L == LeavesOf(p)
               S == Shown(p)
           IN  \E i \in 1..Len(S) :
                  /\ Len(S) = Len(L)
                  /\ L[i].name = F_Password /\ L[i].steps = <<"field">>
                  /\ Matched(p, L[i]) /\ L[i].s # <<>> /\ S[i] = L[i].s

\* The locations of the target, as the heap holds it now, that a pass of the
\* V1 call p acts on: reached by the walk, under a name of the policy, not
\* empty; in the order of the walk.
RECURSIVE SelectHits(_, _, _)
SelectHits(p, L, i) ==
    IF i > Len(L) THEN <<>>
    ELSE (IF InReach(p, L[i]) /\ Matched(p, L[i]) /\ L[i].s # <<>> THEN <<L[i]>> ELSE <<>>)
         \o SelectHits(p, L, i + 1)

HitsV1(p) ==
    IF call[p].target.k \in {"ptr", "val"}
    THEN SelectHits(p, TargetLeaves(heap, call[p].target.a, <<>>, <<>>, FALSE, MaxDepth), 1)
    ELSE <<>>

\* C13: (V1, two callers on one target) the mask pass of a call writes the
\* mask into the target itself: when the pass is done every location it
\* acted on holds "********" in the heap the other caller shares, and the
\* values it found there, whatever they were, are what the call will write
\* back.  (That two interleaved calls leave the target other than it was is
\* the state C13_Witness.)
C13_MaskedInPlace ==
    [][\A p \in Procs :
          (call[p].gen = 1 /\ call[p].pc = "mask" /\ call'[p].pc = "encode")
          => LET H == HitsV1(p) IN
             /\ \A i \in 1..Len(H) : heap'[H[i].cell] = LString(FixedMaskV1)
             /\ call'[p].savedValues = [i \in 1..Len(H) |-> H[i].s]
             /\ H # <<>> /\ (\E i \in 1..Len(H) : H[i].s # FixedMaskV1) => heap' # heap]_vars

\* Two calls of V1 on one target, which holds no pointer twice, have both
\* ended, and the target is not what it was: the password is "********".
C13_Witness ==
    /\ \A p \in Procs : call[p].gen = 1 /\ call[p].pc = "done"
    /\ heap # orig
    /\ \E a \in 1..Len(orig) :
          /\ orig[a].kind = "string" /\ orig[a].s # FixedMaskV1
          /\ heap[a] = LString(FixedMaskV1)

\* The text the call p returns when it runs with no other call in flight: the
\* steps of Scrub, one after the other, on the target as it was when the call
\* was made and a new receptacle of the type the call was given.
AloneOut(p) ==
    IF call[p].status = "invalid" THEN EmptyOf(call[p].dataType)
    ELSE LET b == Build(call[p].pre, ZeroLit(TypeOfCell(heap, call[p].cloning.a)))
             c == ArgPtr(b.a)
             r == CloneStep(b.h, call[p].target, c, call[p].dataType)
             s0 == [h |-> r.h, panic |-> NoPanic]
             st == IF call[p].gen = 3
                   THEN scrubArg(s0, c, IF call[p].fieldsToScrub.isnil THEN defaultToScrub
                                        ELSE call[p].fieldsToScrub.m, MaskLenVary)
                   ELSE scrubArgV2(s0, c,
                                   IF call[p].fieldsToScrub.isnil
                                   THEN [DefaultToScrubV2 EXCEPT ![K_password] = OptsV2(TRUE, <<"*">>)]
                                   ELSE call[p].fieldsToScrub.m, MaskLenVary)
         IN  IF r.err THEN EmptyOf(call[p].dataType)
             ELSE EncodeStep(st.h, c, call[p].dataType).out

\* C14: (V2 and V3, two callers on one target, each with its own clone
\* receptacle, the configuration left alone by the callers) no call writes
\* the target, every call goes on to return, and the text it returns is the
\* text it returns when it runs alone.
C14_ConcurrentClone ==
    \A p \in Procs :
        (call[p].gen \in {2, 3} /\ call[p].pc # "idle")
        => /\ SubSeq(heap, 1, Len(orig)) = SubSeq(call[p].pre, 1, Len(orig))
           /\ call[p].pc \notin {"fatal", "panicked"}
           /\ call[p].pc = "done" => call[p].out = AloneOut(p)

\* The cells of the locations of the target that the walk of the call p
\* reaches, in the order of the encoding: the fields of a record as they are
\* declared, the elements of a sequence by index.
RECURSIVE SelectReach(_, _, _)
SelectReach(p, L, i) ==
    IF i > Len(L) THEN <<>>
    ELSE (IF InReach(p, L[i]) THEN <<L[i].cell>> ELSE <<>>) \o SelectReach(p, L, i + 1)

\* The two passes of a V1 call have come to the same locations in the same
\* order, and these are the reachable locations in the order of the
\* declarations and the indexes.
SameWalk(p) ==
    /\ call[p].maskSeen = call[p].restoreSeen
    /\ [i \in 1..Len(call[p].maskSeen) |-> call[p].maskSeen[i].cell]
          = SelectReach(p, LeavesOf(p), 1)

\* C15: (V1) the walk comes to every reachable string location exactly
\* once, the fields of a record in the order they are declared and the
\* elements of a sequence by index, and the mask pass and the restore pass
\* come to the same locations in the same order.
C15_VisitedOnce ==
    \A p \in Procs :
        (call[p].gen = 1 /\ call[p].pc = "done")
        => /\ SameWalk(p)
           /\ \A i, j \in 1..Len(call[p].maskSeen) :
                 call[p].maskSeen[i].cell = call[p].maskSeen[j].cell => i = j

\* The cells a pass has acted on, in the order it came to them.
RECURSIVE ActedOn(_, _)
ActedOn(seen, i) ==
    IF i > Len(seen) THEN <<>>
    ELSE (IF seen[i].acts THEN <<seen[i].cell>> ELSE <<>>) \o ActedOn(seen, i + 1)

\* The stack discipline of a V1 call: no pass fails; the restore pass acts on
\* the locations of the mask pass in the same order and leaves the stack
\* empty; the k-th location restored holds the k-th value pushed, unless a
\* later restore has written to it.
StackReplayed(p) ==
    LET A == ActedOn(call[p].maskSeen, 1) IN
    /\ call[p].pc # "panicked"
    /\ call[p].pc \in {"encode", "restore", "done"} => Len(call[p].pushed) = Len(A)
    /\ call[p].pc \in {"encode", "restore"} => call[p].savedValues = call[p].pushed
    /\ call[p].pc = "done"
       => /\ call[p].savedValues = <<>>
          /\ ActedOn(call[p].restoreSeen, 1) = A
          /\ \A k \in 1..Len(A) :
                (\A j \in (k + 1)..Len(A) : A[j] # A[k]) => heap[A[k]].s = call[p].pushed[k]

\* C16: (V1) the values pushed by the mask pass are the originals of the
\* locations it acts on, in the order of the walk; the restore pass takes
\* them in that order, so that the k-th location restored receives the k-th
\* value pushed; the restore pass never reads an empty stack, and the stack
\* is empty when Scrub returns.
C16_SavedValueStack ==
    \A p \in Procs :
        (call[p].gen = 1 /\ call[p].pc # "idle")
        => /\ StackReplayed(p)
           /\ call[p].pc \in {"encode", "restore", "done"}
              => LET A == ActedOn(call[p].maskSeen, 1)
                 IN  call[p].pushed = [k \in 1..Len(A) |-> call[p].pre[A[k]].s]

\* C17: (every generation, every argument) no step of a Scrub call writes
\* the configuration of the package: the default policy stays as it is, and
\* MaskLenVary changes only by the caller's hand, with no call in flight.
C17_ConfigurationReadOnly ==
    [][/\ DefaultToScrubV2' = DefaultToScrubV2
       /\ MaskLenVary' # MaskLenVary => AllIdle /\ call' = call]_vars

\* The value the caller passes, behind its pointers, is a record.
RECURSIVE KindBehind(_, _, _)
KindBehind(h, a, fuel) ==
    IF fuel > 0 /\ h[a].kind = "ptr" /\ ~h[a].isnil
    THEN KindBehind(h, h[a].kids[1], fuel - 1) ELSE h[a].kind

TargetIsRecord(p) ==
    /\ call[p].target.k \in {"ptr", "val"}
    /\ KindBehind(call[p].pre, call[p].target.a, MaxDepth) = "struct"

\* C18 as the claim words it: when the target is not a record, no string in
\* it is changed, whatever the policy: the text is the target's own encoding.
C18_NotARecord ==
    \A p \in Procs :
        (Returned(p) /\ Lossless(p) /\ ~TargetIsRecord(p)) => call[p].out = call[p].plain

\* C18: (every generation, lossless codec) a string location with the empty
\* field name, one with no record field and no map key above it, shows its
\* value whatever the policy contains, the empty name included: so it is
\* for a target that is a string or a sequence of strings.  (A target that
\* is a map of string to any value, or a sequence of records, is no record
\* either, and its locations have names.)
C18_EmptyFieldName ==
    \A p \in Procs :
        (Returned(p) /\ Lossless(p))
        => LET L == LeavesOf(p)
               S == Shown(p)
           IN  /\ Len(S) = Len(L)
               /\ \A i \in 1..Len(L) : L[i].name = <<>> => S[i] = L[i].s
               /\ (\A i \in 1..Len(L) : L[i].name = <<>>) => call[p].out = call[p].plain

\* A V3 call on a pointer to a sequence of strings, under a policy that
\* holds the empty name, has returned a text that shows the strings.
C18_Witness ==
    \E p \in Procs :
        /\ Returned(p) /\ Lossless(p) /\ call[p].gen = 3 /\ call[p].target.k = "ptr"
        /\ K_empty \in PolicyNames(p)
        /\ LET L == LeavesOf(p)
               S == Shown(p)
           IN  /\ Len(S) = Len(L) /\ Len(L) > 1
               /\ \A i \in 1..Len(L) :
                     L[i].name = <<>> /\ L[i].steps = <<"idx">> /\ L[i].s # <<>> /\ S[i] = L[i].s

\* The location is in a map, and the walk does not reach it.
InUnsupportedShape(d) ==
    /\ \E k \in 1..Len(d.steps) : d.steps[k] \in {"key", "skey"}
    /\ WalkState(3, d.steps, 1, "S") # "K"

\* The policy of a V3 call has partial masking enabled for the location, the
\* length of its value is within the minimum and the maximum, and the spans
\* that are to stay visible are longer than the value.
SpanExceeds(p, d) ==
    LET opts == OptsOf(p, d)
        len == Len(d.s)
    IN  /\ ~opts.isnil /\ opts.PartMaskEnabled
        /\ opts.PartMaskMinFldLen <= len /\ len <= opts.PartMaskMaxFldLen
        /\ IF len < opts.PartMaskVisibleBackOnlyIfFldLenGreaterThan
           THEN opts.PartMaskVisibleFrontLen > len
           ELSE opts.PartMaskVisibleFrontLen + opts.PartMaskVisibleBackLen > len

\* C19: (V3, lossless codec) the shapes of the target make the walk raise no
\* error (a walk that stops has come to a policy-named value shorter than the
\* spans its partial mask keeps visible); and a string in a map
\* entry of a shape the walk does not support (in a map that is itself the
\* value of an entry, in a sequence of strings held by an entry, in a map
\* of string to string) shows its value, also under a key of the policy;
\* the numbers show as they are.
C19_UnsupportedShapes ==
    \A p \in Procs :
        /\ (call[p].gen = 3 /\ call[p].pc = "panicked")
           => LET L == LeavesOf(p)
              IN  \E i \in 1..Len(L) :
                     /\ InReach(p, L[i]) /\ Matched(p, L[i]) /\ L[i].s # <<>>
                     /\ SpanExceeds(p, L[i])
        /\ (Returned(p) /\ Lossless(p) /\ call[p].gen = 3)
           => LET L == LeavesOf(p)
                  S == Shown(p)
              IN  /\ SameShape(p)
                  /\ \A i \in 1..Len(L) : InUnsupportedShape(L[i]) => S[i] = L[i].s

\* A text that shows, each under a key of the policy, the value of an entry
\* of a directly nested map, of an element of a sequence of strings in a
\* map, and of an entry of a map of string to string, next to a masked entry.
C19_Witness ==
    \E p \in Procs :
        /\ Returned(p) /\ Lossless(p) /\ call[p].gen = 3
        /\ LET L == LeavesOf(p)
               S == Shown(p)
           IN  \E i, j, k, m \in 1..Len(L) :
                  /\ L[i].steps = <<"field", "key", "key">> /\ Matched(p, L[i])
                  /\ L[i].s # <<>> /\ S[i] = L[i].s
                  /\ L[j].steps = <<"field", "key", "didx">> /\ Matched(p, L[j])
                  /\ L[j].s # <<>> /\ S[j] = L[j].s
                  /\ L[k].steps = <<"field", "skey">> /\ Matched(p, L[k])
                  /\ L[k].s # <<>> /\ S[k] = L[k].s
                  /\ L[m].steps = <<"field", "key">> /\ Matched(p, L[m]) /\ S[m] # L[m].s

\* The policy of a V3 call has partial masking enabled for the location, and
\* the length of its value is below the minimum or above the maximum.
OutOfRange(p, d) ==
    LET opts == OptsOf(p, d) IN
    /\ ~opts.isnil /\ opts.PartMaskEnabled
    /\ Len(d.s) < opts.PartMaskMinFldLen \/ Len(d.s) > opts.PartMaskMaxFldLen

\* C20: (V3, lossless codec) with partial masking enabled, a non-empty value
\* shorter than the minimum field length or longer than the maximum shows
\* the full mask: symbols only, as many as the value is long when
\* MaskLenVary is on and 8 when it is off, and no character of the value.
C20_FullMaskOutOfRange ==
    \A p \in Procs :
        (Returned(p) /\ Lossless(p) /\ call[p].gen = 3)
        => LET L == LeavesOf(p)
               S == Shown(p)
           IN  /\ Len(S) = Len(L)
               /\ \A i \in 1..Len(L) :
                     (/\ InReach(p, L[i]) /\ Matched(p, L[i]) /\ L[i].s # <<>>
                      /\ OutOfRange(p, L[i]))
                     => /\ S[i] = Repeat(SpecSymbol(OptsOf(p, L[i])),
                                         IF MaskLenVary THEN Len(L[i].s) ELSE 8)
                        /\ \A k \in 1..Len(S[i]), j \in 1..Len(L[i].s) : S[i][k] # L[i].s[j]

\* With MaskLenVary on and a policy of minimum 2 and maximum 3, a password
\* of nine characters shows nine symbols.
C20_Witness ==
    \E p \in Procs :
        /\ Returned(p) /\ Lossless(p) /\ call[p].gen = 3 /\ MaskLenVary
        /\ LET L == LeavesOf(p)
               S == Shown(p)
           IN  \E i \in 1..Len(L) :
                  /\ InReach(p, L[i]) /\ Matched(p, L[i]) /\ OutOfRange(p, L[i])
                  /\ OptsOf(p, L[i]).PartMaskMaxFldLen = 3
                  /\ Len(L[i].s) = 9
                  /\ S[i] = <<"#","#","#","#","#","#","#","#","#">>

\* The policy of a V3 call has partial masking enabled for the location and
\* the length of its value is within the minimum and the maximum.
InRange(p, d) ==
    LET opts == OptsOf(p, d) IN
    /\ ~opts.isnil /\ opts.PartMaskEnabled
    /\ opts.PartMaskMinFldLen <= Len(d.s) /\ Len(d.s) <= opts.PartMaskMaxFldLen

\* C21: (V3, lossless codec) with partial masking enabled, a value whose
\* length is within the minimum and the maximum and below the threshold of
\* the visible back shows its first visibleFrontLength characters followed
\* by the symbol, repeated length - visibleFrontLength times.
C21_FrontVisibleMask ==
    \A p \in Procs :
        (Returned(p) /\ Lossless(p) /\ call[p].gen = 3)
        => LET L == LeavesOf(p)
               S == Shown(p)
           IN  /\ Len(S) = Len(L)
               /\ \A i \in 1..Len(L) :
                     (/\ InReach(p, L[i]) /\ Matched(p, L[i]) /\ L[i].s # <<>>
                      /\ InRange(p, L[i])
                      /\ Len(L[i].s) < OptsOf(p, L[i]).PartMaskVisibleBackOnlyIfFldLenGreaterThan)
                     => S[i] = SubSeq(L[i].s, 1, OptsOf(p, L[i]).PartMaskVisibleFrontLen)
                               \o Repeat(SpecSymbol(OptsOf(p, L[i])),
                                         Len(L[i].s) - OptsOf(p, L[i]).PartMaskVisibleFrontLen)

\* Under thresholds (2, 3, 1, 3, 1) and the symbol "#" the password "ab"
\* shows as "a#".
C21_Witness ==
    \E p \in Procs :
        /\ Returned(p) /\ Lossless(p) /\ call[p].gen = 3
        /\ LET L == LeavesOf(p)
               S == Shown(p)
           IN  \E i \in 1..Len(L) :
                  /\ InReach(p, L[i]) /\ Matched(p, L[i]) /\ InRange(p, L[i])
                  /\ OptsOf(p, L[i]) = PartialOpts
                  /\ L[i].s = <<"a", "b">>
                  /\ S[i] = <<"a", "#">>

\* C22: (V3, lossless codec) with partial masking enabled, a value whose
\* length is from the threshold of the visible back up to the maximum, the
\* maximum included, shows its first visibleFrontLength characters, then the
\* symbol repeated length - visibleFrontLength - visibleBackLength times,
\* then its last visibleBackLength characters.
C22_MiddleVisibleMask ==
    \A p \in Procs :
        (Returned(p) /\ Lossless(p) /\ call[p].gen = 3)
        => LET L == LeavesOf(p)
               S == Shown(p)
           IN  /\ Len(S) = Len(L)
               /\ \A i \in 1..Len(L) :
                     (/\ InReach(p, L[i]) /\ Matched(p, L[i]) /\ L[i].s # <<>>
                      /\ InRange(p, L[i])
                      /\ Len(L[i].s) >= OptsOf(p, L[i]).PartMaskVisibleBackOnlyIfFldLenGreaterThan)
                     => LET opts == OptsOf(p, L[i])
                            len == Len(L[i].s)
                        IN  S[i] = SubSeq(L[i].s, 1, opts.PartMaskVisibleFrontLen)
                                   \o Repeat(SpecSymbol(opts),
                                             (len - opts.PartMaskVisibleFrontLen)
                                             - opts.PartMaskVisibleBackLen)
                                   \o SubSeq(L[i].s, len - opts.PartMaskVisibleBackLen + 1, len)

\* Under thresholds (2, 9, 1, 9, 1) a password of nine characters, the
\* maximum, shows its first and its last character around seven symbols.
C22_Witness ==
    \E p \in Procs :
        /\ Returned(p) /\ Lossless(p) /\ call[p].gen = 3
        /\ LET L == LeavesOf(p)
               S == Shown(p)
           IN  \E i \in 1..Len(L) :
                  /\ InReach(p, L[i]) /\ Matched(p, L[i]) /\ InRange(p, L[i])
                  /\ Len(L[i].s) = OptsOf(p, L[i]).PartMaskMaxFldLen
                  /\ L[i].s = LongText
                  /\ S[i] = <<"a","#","#","#","#","#","#","#","i">>

\* C23: (V3, lossless codec) with partial masking enabled, a value whose
\* length is within the minimum and the maximum and not greater than the
\* VisibleBackOnlyIfFldLenGreaterThan threshold shows none of its last
\* visibleBackLength characters.
C23_BackOnlyIfGreater ==
    \A p \in Procs :
        (Returned(p) /\ Lossless(p) /\ call[p].gen = 3)
        => LET L == LeavesOf(p)
               S == Shown(p)
           IN  /\ Len(S) = Len(L)
               /\ \A i \in 1..Len(L) :
                     (/\ InReach(p, L[i]) /\ Matched(p, L[i]) /\ L[i].s # <<>>
                      /\ InRange(p, L[i])
                      /\ Len(L[i].s) <= OptsOf(p, L[i]).PartMaskVisibleBackOnlyIfFldLenGreaterThan)
                     => /\ Len(S[i]) = Len(L[i].s)
                        /\ \A k \in 1..Len(L[i].s) :
                              k > Len(L[i].s) - OptsOf(p, L[i]).PartMaskVisibleBackLen
                              => S[i][k] # L[i].s[k]

\* C24: (V3, lossless codec) a non-empty value under a policy name whose
\* options are nil, or report PartMaskEnabled false, shows the full mask:
\* the symbol only, 8 times or, with MaskLenVary on, once per character,
\* whatever the minimum, the maximum and the visible lengths of the options.
C24_DisabledIsFullMask ==
    \A p \in Procs :
        (Returned(p) /\ Lossless(p) /\ call[p].gen = 3)
        => LET L == LeavesOf(p)
               S == Shown(p)
           IN  /\ Len(S) = Len(L)
               /\ \A i \in 1..Len(L) :
                     (/\ InReach(p, L[i]) /\ Matched(p, L[i]) /\ L[i].s # <<>>
                      /\ OptsOf(p, L[i]).isnil \/ ~OptsOf(p, L[i]).PartMaskEnabled)
                     => S[i] = Repeat(SpecSymbol(OptsOf(p, L[i])),
                                      IF MaskLenVary THEN Len(L[i].s) ELSE 8)

\* Options with partial masking off and thresholds (2, 3, 1, 3, 1): a value
\* of two characters, within the range, shows eight symbols; and a value
\* under nil options shows the full mask.
C24_Witness ==
    \E p \in Procs :
        /\ Returned(p) /\ Lossless(p) /\ call[p].gen = 3 /\ ~MaskLenVary
        /\ ~call[p].fieldsToScrub.isnil
        /\ LET L == LeavesOf(p)
               S == Shown(p)
           IN  \E i, j \in 1..Len(L) :
                  /\ InReach(p, L[i]) /\ Matched(p, L[i])
                  /\ ~OptsOf(p, L[i]).isnil /\ ~OptsOf(p, L[i]).PartMaskEnabled
                  /\ OptsOf(p, L[i]).PartMaskMinFldLen = 2
                  /\ OptsOf(p, L[i]).PartMaskVisibleFrontLen = 1
                  /\ L[i].s = <<"a", "b">>
                  /\ S[i] = <<"*","*","*","*","*","*","*","*">>
                  /\ InReach(p, L[j]) /\ Matched(p, L[j]) /\ OptsOf(p, L[j]).isnil
                  /\ L[j].s = <<"a", "b">>
                  /\ S[j] = <<"*","*","*","*","*","*","*","*">>

\* Symbol resolution as specified: the symbol the options of the location
\* configure when it is a single character, the default "*" otherwise (no
\* options, no symbol, an empty one, one of several characters).
ResolvedSymbol(p, d) ==
    LET opts == OptsOf(p, d) IN
    CASE call[p].gen = 3 -> SpecSymbol(opts)
      [] call[p].gen = 2 ->
            IF ~call[p].fieldsToScrub.isnil /\ opts.hasSymbol /\ Len(opts.symbol) = 1
            THEN opts.symbol ELSE <<"*">>
      [] OTHER -> <<"*">>

\* C25: (V2 and V3, lossless codec) the mask of a matched non-empty value is
\* built from the resolved symbol: the full mask is that symbol, 8 times or,
\* with MaskLenVary on, once per character (V3 with partial masking in
\* force: the strategy's mask with that symbol).
C25_SymbolResolution ==
    \A p \in Procs :
        (Returned(p) /\ Lossless(p) /\ call[p].gen \in {2, 3})
        => LET L == LeavesOf(p)
               S == Shown(p)
           IN  /\ Len(S) = Len(L)
               /\ \A i \in 1..Len(L) :
                     (InReach(p, L[i]) /\ Matched(p, L[i]) /\ L[i].s # <<>>)
                     => S[i] = IF call[p].gen = 3
                               THEN SpecMask(L[i].s, OptsOf(p, L[i]), MaskLenVary)
                               ELSE Repeat(ResolvedSymbol(p, L[i]),
                                           IF MaskLenVary THEN Len(L[i].s) ELSE 8)

\* C26: every Scrub call that has started comes to its end: its passes
\* complete (the call has its result) or a run-time panic unwinds it.
C26_CallTerminates ==
    \A p \in Procs :
        (call[p].pc # "idle") ~> (call[p].pc \in {"done", "panicked"})

\* C27: (V3, lossless codec) partial masking is total and keeps the length:
\* no V3 call ends in a run-time panic, and a non-empty value whose length
\* is within the minimum and the maximum of options with partial masking
\* enabled shows a string of its own length, whatever the visible lengths.
C27_PartialMaskTotal ==
    \A p \in Procs :
        /\ call[p].gen = 3 => call[p].pc # "panicked"
        /\ (Returned(p) /\ Lossless(p) /\ call[p].gen = 3)
           => LET L == LeavesOf(p)
                  S == Shown(p)
              IN  /\ Len(S) = Len(L)
                  /\ \A i \in 1..Len(L) :
                        (/\ InReach(p, L[i]) /\ Matched(p, L[i]) /\ L[i].s # <<>>
                         /\ InRange(p, L[i]))
                        => Len(S[i]) = Len(L[i].s)

\* C28: (V1, two callers on one target, any interleaving of their steps) the
\* text a call returns shows "********", and never the value the target held
\* before the calls, at every location of the target that the walk reaches
\* under a name of the policy and that was not empty.
C28_NoSecretInConcurrentOutput ==
    \A p \in Procs :
        (call[p].gen = 1 /\ call[p].pc \in {"restore", "done"} /\ call[p].status = "ok")
        => LET L == TargetLeaves(orig, call[p].target.a, <<>>, <<>>, FALSE, MaxDepth)
               S == Shown(p)
           IN  /\ Len(S) = Len(L)
               /\ \A i \in 1..Len(L) :
                     (InReach(p, L[i]) /\ Matched(p, L[i]) /\ L[i].s # <<>>)
                     => S[i] = FixedMaskV1

\* A secret that no sample target holds.
OtherText == <<"z", "z", "z">>

\* The cells of the target of the call p that differ in a target of the same
\* shape with other secrets: the strings that are not empty and that the
\* walk reaches under a name of the policy on every path to them.
SecretCells(p) ==
    LET L == LeavesOf(p) IN
    { L[i].cell : i \in { j \in 1..Len(L) :
          /\ L[j].s # <<>>
          /\ \A k \in 1..Len(L) :
                L[k].cell = L[j].cell => InReach(p, L[k]) /\ Matched(p, L[k]) } }

\* The target of the call p with another value in each of these cells.
OtherTarget(p) ==
    LET cells == SecretCells(p) IN
    [a \in 1..Len(call[p].pre) |->
        IF a \in cells THEN LString(OtherText) ELSE call[p].pre[a]]

\* The text Scrub returns for the arguments of the call p when the target is
\* h: the steps of Scrub one after the other (NoDoc: the call panics).
ScrubOn(p, h) ==
    IF call[p].status = "invalid" THEN call[p].out
    ELSE IF call[p].gen = 1
    THEN LET st == scrubArgV1([h |-> h, sv |-> <<>>, panic |-> NoPanic, seen |-> <<>>],
                              call[p].target,
                              IF call[p].fieldsToScrub.isnil THEN DefaultToScrubV1
                              ELSE DOMAIN call[p].fieldsToScrub.m, TRUE)
             b == jsonMarshalArg(st.h, call[p].target)
         IN  IF st.panic # NoPanic THEN NoDoc ELSE IF b = DErr THEN DEmpty ELSE b
    ELSE LET b == Build(h, ZeroLit(TypeOfCell(heap, call[p].cloning.a)))
             c == ArgPtr(b.a)
             r == CloneStep(b.h, call[p].target, c, call[p].dataType)
             s0 == [h |-> r.h, panic |-> NoPanic]
             st == IF call[p].gen = 3
                   THEN scrubArg(s0, c, IF call[p].fieldsToScrub.isnil THEN defaultToScrub
                                        ELSE call[p].fieldsToScrub.m, MaskLenVary)
                   ELSE scrubArgV2(s0, c,
                                   IF call[p].fieldsToScrub.isnil
                                   THEN [DefaultToScrubV2 EXCEPT ![K_password] = OptsV2(TRUE, <<"*">>)]
                                   ELSE call[p].fieldsToScrub.m, MaskLenVary)
         IN  IF r.err THEN EmptyOf(call[p].dataType)
             ELSE IF st.panic # NoPanic THEN NoDoc
             ELSE EncodeStep(st.h, c, call[p].dataType).out

\* The policy of the call p masks no value in part.
NoPartialMask(p) ==
    \/ call[p].gen \in {1, 2}
    \/ call[p].fieldsToScrub.isnil
    \/ \A k \in DOMAIN call[p].fieldsToScrub.m :
          LET opts == call[p].fieldsToScrub.m[k] IN opts.isnil \/ ~opts.PartMaskEnabled

\* C29: with MaskLenVary off and a policy that masks no value in part, the
\* text a call returns is the text Scrub returns for the same arguments and a
\* target that differs from the call's only in the non-empty strings the
\* policy masks: the text tells nothing of these values, not even their
\* length.
C29_NonInterference ==
    \A p \in Procs :
        (call[p].pc = "done" /\ ~MaskLenVary /\ NoPartialMask(p))
        => call[p].out = ScrubOn(p, OtherTarget(p))

\* A call has returned the text of a target whose secrets are not the ones of
\* the other target, and the two texts are the same.
C29_Witness ==
    \E p \in Procs :
        /\ call[p].gen = 3
        /\ Returned(p) /\ ~MaskLenVary /\ NoPartialMask(p)
        /\ SecretCells(p) # {}
        /\ OtherTarget(p) # call[p].pre
        /\ call[p].out = ScrubOn(p, OtherTarget(p))
        /\ \E i \in 1..Len(Shown(p)) : Shown(p)[i] = Repeat(<<"*">>, 8)

\* A V1 call whose json.Marshal has failed and that has come to its end.
EncodeFailedV1(p) ==
    call[p].gen = 1 /\ call[p].pc = "done" /\ call[p].status = "encodefail"

\* C30: (V1) when the encoding of the masked target fails, the restore pass
\* runs all the same, over the locations of the mask pass and until nothing
\* is saved any more; the target is then what it was before the call, and
\* Scrub returns the empty string.
C30_RestoreAfterEncodeFailure ==
    /\ \A p \in Procs :
          (call[p].gen = 1 /\ call[p].status = "encodefail")
          => call[p].pc \in {"restore", "done"} /\ call[p].out = DEmpty
    /\ \A p \in Procs :
          EncodeFailedV1(p)
          => /\ call[p].restoreSeen = call[p].maskSeen
             /\ call[p].savedValues = <<>>
             /\ heap = call[p].pre

====
